---- MODULE Spec2Model ----
(***************************************************************************)
(* The indexed quad storage engine of oxigraph (lib/src/storage/mod.rs):   *)
(* eleven sled keyspaces (nine quad permutations, the graph-name registry, *)
(* the string interner), the storage facade over them and its              *)
(* transactional mirror.                                                   *)
(***************************************************************************)
EXTENDS Integers, Sequences, FiniteSets, TLC

(***************************************************************************)
(* Bounds of the model.                                                    *)
(***************************************************************************)
\* The largest number of quads the store holds (guard of the insert actions).
MaxQuads == 2

\* The string hashes the terms of the model are built from.
StrHashes == {1, 2}

(***************************************************************************)
(* Encoded terms and quads (storage::numeric_encoder).                     *)
(***************************************************************************)
\* Option::None, for an unbound pattern position.
None == [type |-> "None", iri_id |-> 0]

DefaultGraph == [type |-> "DefaultGraph", iri_id |-> 0]

NamedNode(h) == [type |-> "NamedNode", iri_id |-> h]

is_default_graph(term) == term.type = "DefaultGraph"

\* The terms used in the subject, predicate and object positions.
Terms == {NamedNode(h) : h \in StrHashes}

NamedGraphs == Terms

GraphNames == {DefaultGraph} \cup NamedGraphs

EncodedQuad(s, p, o, g) ==
    [subject |-> s, predicate |-> p, object |-> o, graph_name |-> g]

Quads == {EncodedQuad(s, p, o, g) : s \in Terms, p \in Terms, o \in Terms, g \in GraphNames}

NoQuad == EncodedQuad(None, None, None, None)

(***************************************************************************)
(* Binary term encoder (storage::binary_encoder): a one-byte type tag      *)
(* followed by the payload; every encoded term is self-delimiting.         *)
(***************************************************************************)
TYPE_DEFAULT_GRAPH_ID == 0

TYPE_NAMED_NODE_ID == 1

write_term(buffer, term) ==
    IF is_default_graph(term)
    THEN buffer \o <<TYPE_DEFAULT_GRAPH_ID>>
    ELSE buffer \o <<TYPE_NAMED_NODE_ID, term.iri_id>>

encode_term(t) == write_term(<<>>, t)

encode_term_pair(t1, t2) == write_term(write_term(<<>>, t1), t2)

encode_term_triple(t1, t2, t3) == write_term(write_term(write_term(<<>>, t1), t2), t3)

encode_term_quad(t1, t2, t3, t4) ==
    write_term(write_term(write_term(write_term(<<>>, t1), t2), t3), t4)

\* Parses one term from position `at` of the bytes; `next` is the position after it.
decode_term_at(bytes, at) ==
    IF bytes[at] = TYPE_NAMED_NODE_ID
    THEN [term |-> NamedNode(bytes[at + 1]), next |-> at + 2]
    ELSE [term |-> DefaultGraph, next |-> at + 1]

decode_term(bytes) == decode_term_at(bytes, 1).term

write_spog_quad(quad) ==
    encode_term_quad(quad.subject, quad.predicate, quad.object, quad.graph_name)

write_posg_quad(quad) ==
    encode_term_quad(quad.predicate, quad.object, quad.subject, quad.graph_name)

write_ospg_quad(quad) ==
    encode_term_quad(quad.object, quad.subject, quad.predicate, quad.graph_name)

write_gspo_quad(quad) ==
    encode_term_quad(quad.graph_name, quad.subject, quad.predicate, quad.object)

write_gpos_quad(quad) ==
    encode_term_quad(quad.graph_name, quad.predicate, quad.object, quad.subject)

write_gosp_quad(quad) ==
    encode_term_quad(quad.graph_name, quad.object, quad.subject, quad.predicate)

write_spo_quad(quad) == encode_term_triple(quad.subject, quad.predicate, quad.object)

write_pos_quad(quad) == encode_term_triple(quad.predicate, quad.object, quad.subject)

write_osp_quad(quad) == encode_term_triple(quad.object, quad.subject, quad.predicate)

\* The positions, 1..4 in reading order, of the subject, predicate, object and
\* graph name in a key of each encoding (0: not in the key, the default graph).
QuadEncodingOrder(encoding) ==
    CASE encoding = "Spog" -> [s |-> 1, p |-> 2, o |-> 3, g |-> 4]
      [] encoding = "Posg" -> [s |-> 3, p |-> 1, o |-> 2, g |-> 4]
      [] encoding = "Ospg" -> [s |-> 2, p |-> 3, o |-> 1, g |-> 4]
      [] encoding = "Gspo" -> [s |-> 2, p |-> 3, o |-> 4, g |-> 1]
      [] encoding = "Gpos" -> [s |-> 4, p |-> 2, o |-> 3, g |-> 1]
      [] encoding = "Gosp" -> [s |-> 3, p |-> 4, o |-> 2, g |-> 1]
      [] encoding = "Dspo" -> [s |-> 1, p |-> 2, o |-> 3, g |-> 0]
      [] encoding = "Dpos" -> [s |-> 3, p |-> 1, o |-> 2, g |-> 0]
      [] encoding = "Dosp" -> [s |-> 2, p |-> 3, o |-> 1, g |-> 0]

\* QuadEncoding::decode: reads the terms of a key one after the other.
QuadEncoding_decode(encoding, bytes) ==
    LET ord == QuadEncodingOrder(encoding)
        n == IF ord.g = 0 THEN 3 ELSE 4
        d1 == decode_term_at(bytes, 1)
        d2 == decode_term_at(bytes, d1.next)
        d3 == decode_term_at(bytes, d2.next)
        read == <<d1.term, d2.term, d3.term>>
                   \o (IF n = 4 THEN <<decode_term_at(bytes, d3.next).term>> ELSE <<>>)
    IN  EncodedQuad(read[ord.s], read[ord.p], read[ord.o],
                    IF ord.g = 0 THEN DefaultGraph ELSE read[ord.g])

(***************************************************************************)
(* The key-value substrate (sled): a tree is the set of its keys (the      *)
(* values of the quad trees and of the registry are empty), id2str is a    *)
(* function from hash to string.                                           *)
(***************************************************************************)
QuadTreeNames == {"spog", "posg", "ospg", "gspo", "gpos", "gosp", "dspo", "dpos", "dosp"}

TreeNames == QuadTreeNames \cup {"graphs", "id2str"}

EmptyId2Str == [h \in {} |-> <<>>]

\* The trees opened by Storage::do_open, all empty.
EmptyStorage ==
    [id2str |-> EmptyId2Str,
     spog |-> {}, posg |-> {}, ospg |-> {}, gspo |-> {}, gpos |-> {}, gosp |-> {},
     dspo |-> {}, dpos |-> {}, dosp |-> {}, graphs |-> {}]

RECURSIVE LexLess(_, _)
\* Byte-lexicographic order of keys.
LexLess(a, b) ==
    IF a = <<>> THEN b # <<>>
    ELSE IF b = <<>> THEN FALSE
    ELSE IF a[1] # b[1] THEN a[1] < b[1]
    ELSE LexLess(Tail(a), Tail(b))

IsPrefix(prefix, key) ==
    Len(prefix) <= Len(key) /\ SubSeq(key, 1, Len(prefix)) = prefix

NoKey == [some |-> FALSE, key |-> <<>>]

SomeKey(k) == [some |-> TRUE, key |-> k]

\* Mutant of Iter_next: when the key returned last has been removed from the
\* tree, the iterator passes over the key that follows it.
Iter_next_skips_after_removal(tree, prefix, last) ==
    LET cand == {k \in tree : IsPrefix(prefix, k) /\ (last.some => LexLess(last.key, k))}
        least == CHOOSE k \in cand : \A x \in cand : x = k \/ LexLess(k, x)
        rest == IF last.some /\ last.key \notin tree /\ cand # {}
                THEN cand \ {least} ELSE cand
    IN  IF rest = {} THEN NoKey
        ELSE SomeKey(CHOOSE k \in rest : \A x \in rest : x = k \/ LexLess(k, x))

\* sled Iter::next of a prefix scan: the least key of the tree, as it is now,
\* that has the prefix and follows the key returned last.
Iter_next(tree, prefix, last) ==
    LET cand == {k \in tree : IsPrefix(prefix, k) /\ (last.some => LexLess(last.key, k))}
    IN  IF cand = {} THEN NoKey
        ELSE SomeKey(CHOOSE k \in cand : \A x \in cand : x = k \/ LexLess(k, x))

(***************************************************************************)
(* Iterators over the trees.                                               *)
(***************************************************************************)
\* Storage::inner_quads: a DecodingQuadIterator over tree.scan_prefix(prefix).
inner_quads(tree, prefix, encoding) ==
    [iter |-> [tree |-> tree, prefix |-> prefix, last |-> NoKey], encoding |-> encoding]

spog_quads(prefix) == inner_quads("spog", prefix, "Spog")

posg_quads(prefix) == inner_quads("posg", prefix, "Posg")

ospg_quads(prefix) == inner_quads("ospg", prefix, "Ospg")

gspo_quads(prefix) == inner_quads("gspo", prefix, "Gspo")

gpos_quads(prefix) == inner_quads("gpos", prefix, "Gpos")

gosp_quads(prefix) == inner_quads("gosp", prefix, "Gosp")

dspo_quads(prefix) == inner_quads("dspo", prefix, "Dspo")

dpos_quads(prefix) == inner_quads("dpos", prefix, "Dpos")

dosp_quads(prefix) == inner_quads("dosp", prefix, "Dosp")

\* DecodingQuadIterator::next on the store `st`: the decoded next key, if any.
DecodingQuadIterator_next(st, it) ==
    LET k == Iter_next(st[it.iter.tree], it.iter.prefix, it.iter.last)
    IN  IF k.some
        THEN [some |-> TRUE, item |-> QuadEncoding_decode(it.encoding, k.key),
              it |-> [it EXCEPT !.iter.last = k]]
        ELSE [some |-> FALSE, item |-> NoQuad, it |-> it]

\* ChainedDecodingQuadIterator::new; `second` is <<>> for Option::None.
ChainedDecodingQuadIterator_new(first) == [first |-> first, second |-> <<>>]

\* ChainedDecodingQuadIterator::pair
ChainedDecodingQuadIterator_pair(first, second) == [first |-> first, second |-> <<second>>]

\* Mutant of ChainedDecodingQuadIterator::next: the second iterator is
\* drained before the first.
ChainedDecodingQuadIterator_next_second_first(st, chain) ==
    LET r2 == IF chain.second # <<>> THEN DecodingQuadIterator_next(st, chain.second[1])
              ELSE [some |-> FALSE, item |-> NoQuad, it |-> chain.first]
    IN  IF r2.some
        THEN [some |-> TRUE, item |-> r2.item, it |-> [chain EXCEPT !.second = <<r2.it>>]]
        ELSE LET r1 == DecodingQuadIterator_next(st, chain.first)
             IN  [some |-> r1.some, item |-> r1.item, it |-> [chain EXCEPT !.first = r1.it]]

\* ChainedDecodingQuadIterator::next: the first iterator until it is exhausted,
\* then the second one, if there is one.
ChainedDecodingQuadIterator_next(st, chain) ==
    LET r1 == DecodingQuadIterator_next(st, chain.first)
    IN  IF r1.some
        THEN [some |-> TRUE, item |-> r1.item, it |-> [chain EXCEPT !.first = r1.it]]
        ELSE IF chain.second # <<>>
        THEN LET r2 == DecodingQuadIterator_next(st, chain.second[1])
             IN  [some |-> r2.some, item |-> r2.item,
                  it |-> [chain EXCEPT !.second = <<r2.it>>]]
        ELSE [some |-> FALSE, item |-> NoQuad, it |-> chain]

RECURSIVE Collect(_, _)
\* The items a caller gets by calling next() until it returns None, the store
\* not changing meanwhile.
Collect(st, chain) ==
    LET r == ChainedDecodingQuadIterator_next(st, chain)
    IN  IF r.some THEN <<r.item>> \o Collect(st, r.it) ELSE <<>>

(***************************************************************************)
(* Storage: the reads.                                                     *)
(***************************************************************************)
\* Mutant of len: the default-graph tree is not counted.
len_without_dspo(st) == Cardinality(st.gspo)

len(st) == Cardinality(st.gspo) + Cardinality(st.dspo)

is_empty(st) == st.gspo = {} /\ st.dspo = {}

\* Mutant of contains: the named-graph lookup is made on SPOG, the tree insert
\* and remove decide by.
contains_on_spog(st, quad) ==
    IF is_default_graph(quad.graph_name)
    THEN write_spo_quad(quad) \in st.dspo
    ELSE write_spog_quad(quad) \in st.spog

\* Mutant of contains: the named-graph lookup uses the SPOG key in the GSPO tree.
contains_with_spog_key(st, quad) ==
    IF is_default_graph(quad.graph_name)
    THEN write_spo_quad(quad) \in st.dspo
    ELSE write_spog_quad(quad) \in st.gspo

contains(st, quad) ==
    IF is_default_graph(quad.graph_name)
    THEN write_spo_quad(quad) \in st.dspo
    ELSE write_gspo_quad(quad) \in st.gspo

quads ==
    ChainedDecodingQuadIterator_pair(dspo_quads(<<>>), gspo_quads(<<>>))

quads_for_subject(subject) ==
    ChainedDecodingQuadIterator_pair(
        dspo_quads(encode_term(subject)), spog_quads(encode_term(subject)))

quads_for_subject_predicate(subject, predicate) ==
    ChainedDecodingQuadIterator_pair(
        dspo_quads(encode_term_pair(subject, predicate)),
        spog_quads(encode_term_pair(subject, predicate)))

quads_for_subject_predicate_object(subject, predicate, object) ==
    ChainedDecodingQuadIterator_pair(
        dspo_quads(encode_term_triple(subject, predicate, object)),
        spog_quads(encode_term_triple(subject, predicate, object)))

\* Mutant of quads_for_subject_object: the prefix is written subject first.
quads_for_subject_object_swapped(subject, object) ==
    ChainedDecodingQuadIterator_pair(
        dosp_quads(encode_term_pair(subject, object)),
        ospg_quads(encode_term_pair(subject, object)))

quads_for_subject_object(subject, object) ==
    ChainedDecodingQuadIterator_pair(
        dosp_quads(encode_term_pair(object, subject)),
        ospg_quads(encode_term_pair(object, subject)))

quads_for_predicate(predicate) ==
    ChainedDecodingQuadIterator_pair(
        dpos_quads(encode_term(predicate)), posg_quads(encode_term(predicate)))

quads_for_predicate_object(predicate, object) ==
    ChainedDecodingQuadIterator_pair(
        dpos_quads(encode_term_pair(predicate, object)),
        posg_quads(encode_term_pair(predicate, object)))

quads_for_object(object) ==
    ChainedDecodingQuadIterator_pair(
        dosp_quads(encode_term(object)), ospg_quads(encode_term(object)))

\* Mutant of quads_for_graph: the GSPO scan is made for the default graph too.
quads_for_graph_always_gspo(graph_name) ==
    ChainedDecodingQuadIterator_new(gspo_quads(encode_term(graph_name)))

quads_for_graph(graph_name) ==
    ChainedDecodingQuadIterator_new(
        IF is_default_graph(graph_name)
        THEN dspo_quads(<<>>)
        ELSE gspo_quads(encode_term(graph_name)))

quads_for_subject_graph(subject, graph_name) ==
    ChainedDecodingQuadIterator_new(
        IF is_default_graph(graph_name)
        THEN dspo_quads(encode_term(subject))
        ELSE gspo_quads(encode_term_pair(graph_name, subject)))

quads_for_subject_predicate_graph(subject, predicate, graph_name) ==
    ChainedDecodingQuadIterator_new(
        IF is_default_graph(graph_name)
        THEN dspo_quads(encode_term_pair(subject, predicate))
        ELSE gspo_quads(encode_term_triple(graph_name, subject, predicate)))

quads_for_subject_predicate_object_graph(subject, predicate, object, graph_name) ==
    ChainedDecodingQuadIterator_new(
        IF is_default_graph(graph_name)
        THEN dspo_quads(encode_term_triple(subject, predicate, object))
        ELSE gspo_quads(encode_term_quad(graph_name, subject, predicate, object)))

quads_for_subject_object_graph(subject, object, graph_name) ==
    ChainedDecodingQuadIterator_new(
        IF is_default_graph(graph_name)
        THEN dosp_quads(encode_term_pair(object, subject))
        ELSE gosp_quads(encode_term_triple(graph_name, object, subject)))

quads_for_predicate_graph(predicate, graph_name) ==
    ChainedDecodingQuadIterator_new(
        IF is_default_graph(graph_name)
        THEN dpos_quads(encode_term(predicate))
        ELSE gpos_quads(encode_term_pair(graph_name, predicate)))

quads_for_predicate_object_graph(predicate, object, graph_name) ==
    ChainedDecodingQuadIterator_new(
        IF is_default_graph(graph_name)
        THEN dpos_quads(encode_term_pair(predicate, object))
        ELSE gpos_quads(encode_term_triple(graph_name, predicate, object)))

quads_for_object_graph(object, graph_name) ==
    ChainedDecodingQuadIterator_new(
        IF is_default_graph(graph_name)
        THEN dosp_quads(encode_term(object))
        ELSE gosp_quads(encode_term_pair(graph_name, object)))

\* Storage::quads_for_pattern; an unbound position is None.
quads_for_pattern(subject, predicate, object, graph_name) ==
    IF subject # None THEN
        IF predicate # None THEN
            IF object # None THEN
                IF graph_name # None
                THEN quads_for_subject_predicate_object_graph(
                         subject, predicate, object, graph_name)
                ELSE quads_for_subject_predicate_object(subject, predicate, object)
            ELSE
                IF graph_name # None
                THEN quads_for_subject_predicate_graph(subject, predicate, graph_name)
                ELSE quads_for_subject_predicate(subject, predicate)
        ELSE
            IF object # None THEN
                IF graph_name # None
                THEN quads_for_subject_object_graph(subject, object, graph_name)
                ELSE quads_for_subject_object(subject, object)
            ELSE
                IF graph_name # None
                THEN quads_for_subject_graph(subject, graph_name)
                ELSE quads_for_subject(subject)
    ELSE
        IF predicate # None THEN
            IF object # None THEN
                IF graph_name # None
                THEN quads_for_predicate_object_graph(predicate, object, graph_name)
                ELSE quads_for_predicate_object(predicate, object)
            ELSE
                IF graph_name # None
                THEN quads_for_predicate_graph(predicate, graph_name)
                ELSE quads_for_predicate(predicate)
        ELSE
            IF object # None THEN
                IF graph_name # None
                THEN quads_for_object_graph(object, graph_name)
                ELSE quads_for_object(object)
            ELSE
                IF graph_name # None
                THEN quads_for_graph(graph_name)
                ELSE quads

\* Storage::named_graphs, collected: the decoded keys of the registry in order.
RECURSIVE named_graphs_from(_, _)
named_graphs_from(st, last) ==
    LET k == Iter_next(st.graphs, <<>>, last)
    IN  IF k.some THEN <<decode_term(k.key)>> \o named_graphs_from(st, k) ELSE <<>>

named_graphs(st) == named_graphs_from(st, NoKey)

contains_named_graph(st, graph_name) == encode_term(graph_name) \in st.graphs

\* A string is the sequence of its chars (code points). The UTF-8 bytes of one
\* char.
encode_utf8(c) ==
    IF c < 128 THEN <<c>>
    ELSE IF c < 2048 THEN <<192 + (c \div 64), 128 + (c % 64)>>
    ELSE IF c < 65536
    THEN <<224 + (c \div 4096), 128 + ((c \div 64) % 64), 128 + (c % 64)>>
    ELSE <<240 + (c \div 262144), 128 + ((c \div 4096) % 64), 128 + ((c \div 64) % 64),
           128 + (c % 64)>>

RECURSIVE as_bytes(_)
\* str::as_bytes: the UTF-8 bytes of a string, the value sled stores.
as_bytes(str) == IF str = <<>> THEN <<>> ELSE encode_utf8(Head(str)) \o as_bytes(Tail(str))

\* The length of the UTF-8 sequence a byte leads, 0 for a byte that leads none.
utf8_char_width(b) ==
    IF b < 128 THEN 1
    ELSE IF b \in 194..223 THEN 2
    ELSE IF b \in 224..239 THEN 3
    ELSE IF b \in 240..244 THEN 4
    ELSE 0

RECURSIVE from_utf8(_)
\* String::from_utf8: the string of the bytes, or an error when they are not
\* UTF-8 (a byte that leads nothing, a sequence cut short, a byte that is not a
\* continuation, an overlong form, a surrogate, a char above 10FFFF).
from_utf8(bytes) ==
    IF bytes = <<>> THEN [ok |-> TRUE, value |-> <<>>]
    ELSE LET w == utf8_char_width(bytes[1])
         IN  IF w = 0 \/ Len(bytes) < w \/ \E i \in 2..w : bytes[i] \notin 128..191
             THEN [ok |-> FALSE, value |-> <<>>]
             ELSE LET c == IF w = 1 THEN bytes[1]
                           ELSE IF w = 2 THEN (bytes[1] - 192) * 64 + (bytes[2] - 128)
                           ELSE IF w = 3
                           THEN (bytes[1] - 224) * 4096 + (bytes[2] - 128) * 64
                                    + (bytes[3] - 128)
                           ELSE (bytes[1] - 240) * 262144 + (bytes[2] - 128) * 4096
                                    + (bytes[3] - 128) * 64 + (bytes[4] - 128)
                      valid == /\ w = 3 => (c >= 2048 /\ c \notin 55296..57343)
                               /\ w = 4 => (c >= 65536 /\ c <= 1114111)
                      rest == from_utf8(SubSeq(bytes, w + 1, Len(bytes)))
                  IN  IF valid /\ rest.ok
                      THEN [ok |-> TRUE, value |-> <<c>> \o rest.value]
                      ELSE [ok |-> FALSE, value |-> <<>>]

\* Storage::get_str: <<>> for Ok(None), <<string>> for Ok(Some(string)), the
\* invalid-data error when the bytes stored are not UTF-8.
get_str(st, key) ==
    IF key \in DOMAIN st.id2str
    THEN LET d == from_utf8(st.id2str[key])
         IN  IF d.ok THEN <<d.value>> ELSE <<"Err", "InvalidData">>
    ELSE <<>>

contains_str(st, key) == key \in DOMAIN st.id2str

(***************************************************************************)
(* Storage: the writes.  A write is a tree and a key; an operation is the  *)
(* sequence of its writes in program order.                                *)
(***************************************************************************)
Write(tree, key) == [tree |-> tree, key |-> key]

\* Tree::insert(key, &[]) and Tree::remove(key) on one tree of the store.
Tree_insert(st, w) == [st EXCEPT ![w.tree] = @ \cup {w.key}]

Tree_remove(st, w) == [st EXCEPT ![w.tree] = @ \ {w.key}]

Tree_contains_key(st, w) == w.key \in st[w.tree]

RECURSIVE Tree_insert_all(_, _)
Tree_insert_all(st, ws) ==
    IF ws = <<>> THEN st ELSE Tree_insert_all(Tree_insert(st, Head(ws)), Tail(ws))

RECURSIVE Tree_remove_all(_, _)
Tree_remove_all(st, ws) ==
    IF ws = <<>> THEN st ELSE Tree_remove_all(Tree_remove(st, Head(ws)), Tail(ws))

\* Mutant of insert_primary: is_new is decided on GSPO for a named graph.
insert_primary_on_gspo(quad) ==
    IF is_default_graph(quad.graph_name)
    THEN Write("dspo", write_spo_quad(quad))
    ELSE Write("gspo", write_gspo_quad(quad))

\* The write of Storage::insert that decides is_new.
insert_primary(quad) ==
    IF is_default_graph(quad.graph_name)
    THEN Write("dspo", write_spo_quad(quad))
    ELSE Write("spog", write_spog_quad(quad))

\* Mutant of insert_siblings: the GOSP write is left out.
insert_siblings_without_gosp(quad) ==
    IF is_default_graph(quad.graph_name)
    THEN <<Write("dpos", write_pos_quad(quad)),
           Write("dosp", write_osp_quad(quad))>>
    ELSE <<Write("posg", write_posg_quad(quad)),
           Write("ospg", write_ospg_quad(quad)),
           Write("gspo", write_gspo_quad(quad)),
           Write("gpos", write_gpos_quad(quad)),
           Write("graphs", write_term(<<>>, quad.graph_name))>>

\* Mutant of insert_siblings: the graph is not recorded in the registry.
insert_siblings_without_graphs(quad) ==
    IF is_default_graph(quad.graph_name)
    THEN <<Write("dpos", write_pos_quad(quad)),
           Write("dosp", write_osp_quad(quad))>>
    ELSE <<Write("posg", write_posg_quad(quad)),
           Write("ospg", write_ospg_quad(quad)),
           Write("gspo", write_gspo_quad(quad)),
           Write("gpos", write_gpos_quad(quad)),
           Write("gosp", write_gosp_quad(quad))>>

\* Mutant of insert_siblings: a default-graph quad records its graph in the
\* registry as a named-graph quad does.
insert_siblings_default_registers(quad) ==
    IF is_default_graph(quad.graph_name)
    THEN <<Write("dpos", write_pos_quad(quad)),
           Write("dosp", write_osp_quad(quad)),
           Write("graphs", write_term(<<>>, quad.graph_name))>>
    ELSE <<Write("posg", write_posg_quad(quad)),
           Write("ospg", write_ospg_quad(quad)),
           Write("gspo", write_gspo_quad(quad)),
           Write("gpos", write_gpos_quad(quad)),
           Write("gosp", write_gosp_quad(quad)),
           Write("graphs", write_term(<<>>, quad.graph_name))>>

\* The writes of Storage::insert that follow when is_new, in program order.
insert_siblings(quad) ==
    IF is_default_graph(quad.graph_name)
    THEN <<Write("dpos", write_pos_quad(quad)),
           Write("dosp", write_osp_quad(quad))>>
    ELSE <<Write("posg", write_posg_quad(quad)),
           Write("ospg", write_ospg_quad(quad)),
           Write("gspo", write_gspo_quad(quad)),
           Write("gpos", write_gpos_quad(quad)),
           Write("gosp", write_gosp_quad(quad)),
           Write("graphs", write_term(<<>>, quad.graph_name))>>

\* Mutant of insert: is_new is taken from is_some() instead of is_none().
insert_is_some(st, quad) ==
    LET is_new == Tree_contains_key(st, insert_primary(quad))
        st1 == Tree_insert(st, insert_primary(quad))
    IN  [store |-> IF is_new THEN Tree_insert_all(st1, insert_siblings(quad)) ELSE st1,
         ret |-> is_new]

\* Storage::insert, run to completion: the store after it and Ok(is_new).
insert(st, quad) ==
    LET is_new == ~Tree_contains_key(st, insert_primary(quad))
        st1 == Tree_insert(st, insert_primary(quad))
    IN  [store |-> IF is_new THEN Tree_insert_all(st1, insert_siblings(quad)) ELSE st1,
         ret |-> is_new]

\* The write of Storage::remove that decides is_present.
remove_primary(quad) ==
    IF is_default_graph(quad.graph_name)
    THEN Write("dspo", write_spo_quad(quad))
    ELSE Write("spog", write_spog_quad(quad))

\* Mutant of remove_siblings: the GPOS key is not removed.
remove_siblings_without_gpos(quad) ==
    IF is_default_graph(quad.graph_name)
    THEN <<Write("dpos", write_pos_quad(quad)),
           Write("dosp", write_osp_quad(quad))>>
    ELSE <<Write("posg", write_posg_quad(quad)),
           Write("ospg", write_ospg_quad(quad)),
           Write("gspo", write_gspo_quad(quad)),
           Write("gosp", write_gosp_quad(quad))>>

\* Mutant of remove_siblings: the registry entry is removed with the quad, as
\* insert adds it.
remove_siblings_with_graphs(quad) ==
    IF is_default_graph(quad.graph_name)
    THEN <<Write("dpos", write_pos_quad(quad)),
           Write("dosp", write_osp_quad(quad))>>
    ELSE <<Write("posg", write_posg_quad(quad)),
           Write("ospg", write_ospg_quad(quad)),
           Write("gspo", write_gspo_quad(quad)),
           Write("gpos", write_gpos_quad(quad)),
           Write("gosp", write_gosp_quad(quad)),
           Write("graphs", write_term(<<>>, quad.graph_name))>>

\* The writes of Storage::remove that follow when is_present, in program order.
remove_siblings(quad) ==
    IF is_default_graph(quad.graph_name)
    THEN <<Write("dpos", write_pos_quad(quad)),
           Write("dosp", write_osp_quad(quad))>>
    ELSE <<Write("posg", write_posg_quad(quad)),
           Write("ospg", write_ospg_quad(quad)),
           Write("gspo", write_gspo_quad(quad)),
           Write("gpos", write_gpos_quad(quad)),
           Write("gosp", write_gosp_quad(quad))>>

\* Storage::remove, run to completion: the store after it and Ok(is_present).
remove(st, quad) ==
    LET is_present == Tree_contains_key(st, remove_primary(quad))
        st1 == Tree_remove(st, remove_primary(quad))
    IN  [store |-> IF is_present THEN Tree_remove_all(st1, remove_siblings(quad)) ELSE st1,
         ret |-> is_present]

\* Mutant of insert_named_graph: is_some() in place of is_none().
insert_named_graph_is_some(st, graph_name) ==
    [store |-> [st EXCEPT !.graphs = @ \cup {encode_term(graph_name)}],
     ret |-> encode_term(graph_name) \in st.graphs]

insert_named_graph(st, graph_name) ==
    [store |-> [st EXCEPT !.graphs = @ \cup {encode_term(graph_name)}],
     ret |-> encode_term(graph_name) \notin st.graphs]

RECURSIVE remove_each(_, _)
\* for quad in iterator { self.remove(&quad?)?; }: the iterator reads the trees
\* as the removes leave them.
remove_each(st, chain) ==
    LET r == ChainedDecodingQuadIterator_next(st, chain)
    IN  IF r.some THEN remove_each(remove(st, r.item).store, r.it) ELSE st

\* Mutant of clear_graph: the default graph's DOSP is not truncated.
clear_graph_without_dosp(st, graph_name) ==
    IF is_default_graph(graph_name)
    THEN [st EXCEPT !.dspo = {}, !.dpos = {}]
    ELSE remove_each(st, quads_for_graph(graph_name))

clear_graph(st, graph_name) ==
    IF is_default_graph(graph_name)
    THEN [st EXCEPT !.dspo = {}, !.dpos = {}, !.dosp = {}]
    ELSE remove_each(st, quads_for_graph(graph_name))

\* Mutant of remove_named_graph: the registry entry is kept.
remove_named_graph_keeps_registry(st, graph_name) ==
    LET st1 == remove_each(st, quads_for_graph(graph_name))
    IN  [store |-> st1, ret |-> encode_term(graph_name) \in st1.graphs]

remove_named_graph(st, graph_name) ==
    LET st1 == remove_each(st, quads_for_graph(graph_name))
    IN  [store |-> [st1 EXCEPT !.graphs = @ \ {encode_term(graph_name)}],
         ret |-> encode_term(graph_name) \in st1.graphs]

\* Mutant of clear: the interner is not truncated.
clear_keeps_id2str(st) ==
    [st EXCEPT !.dspo = {}, !.dpos = {}, !.dosp = {},
               !.gspo = {}, !.gpos = {}, !.gosp = {},
               !.spog = {}, !.posg = {}, !.ospg = {},
               !.graphs = {}]

clear(st) ==
    [st EXCEPT !.dspo = {}, !.dpos = {}, !.dosp = {},
               !.gspo = {}, !.gpos = {}, !.gosp = {},
               !.spog = {}, !.posg = {}, !.ospg = {},
               !.graphs = {}, !.id2str = EmptyId2Str]

\* sled::Tree::clear on one of the eleven trees.
Tree_clear(st, tree) ==
    IF tree = "id2str" THEN [st EXCEPT !.id2str = EmptyId2Str] ELSE [st EXCEPT ![tree] = {}]

\* Mutant of ClearOrder: the interner is truncated first.
ClearOrder_id2str_first ==
    <<"id2str", "dspo", "dpos", "dosp", "gspo", "gpos", "gosp", "spog", "posg", "ospg",
      "graphs">>

\* The trees in the order Storage::clear truncates them.
ClearOrder ==
    <<"dspo", "dpos", "dosp", "gspo", "gpos", "gosp", "spog", "posg", "ospg", "graphs",
      "id2str">>

\* Mutant of insert_str: the value of a key that is present is kept.
insert_str_keeps_old(st, key, value) ==
    [store |-> [st EXCEPT !.id2str =
                   [h \in DOMAIN @ \cup {key} |->
                       IF h \in DOMAIN @ THEN @[h] ELSE as_bytes(value)]],
     ret |-> key \notin DOMAIN st.id2str]

\* Storage::insert_str: the store after it and Ok(whether the key was new).
insert_str(st, key, value) ==
    [store |-> [st EXCEPT !.id2str =
                   [h \in DOMAIN @ \cup {key} |-> IF h = key THEN as_bytes(value) ELSE @[h]]],
     ret |-> key \notin DOMAIN st.id2str]

(***************************************************************************)
(* Storage::do_open: the version handshake and the migration from v0.      *)
(***************************************************************************)
\* binary_encoder::LATEST_STORAGE_VERSION
LATEST_STORAGE_VERSION == 1

\* The default keyspace of a database that was never opened: no key.
EmptyDefault == [k \in {} |-> <<>>]

RECURSIVE be_bytes(_, _)
\* The n low-order bytes of v, the most significant first.
be_bytes(v, n) == IF n = 0 THEN <<>> ELSE be_bytes(v \div 256, n - 1) \o <<v % 256>>

\* u64::to_be_bytes
to_be_bytes(v) == be_bytes(v, 8)

RECURSIVE from_be_bytes_acc(_, _)
from_be_bytes_acc(bytes, acc) ==
    IF bytes = <<>> THEN acc ELSE from_be_bytes_acc(Tail(bytes), acc * 256 + Head(bytes))

\* u64::from_be_bytes
from_be_bytes(bytes) == from_be_bytes_acc(bytes, 0)

\* Storage::set_version
set_version(dflt, version) ==
    [k \in DOMAIN dflt \cup {"oxversion"} |->
        IF k = "oxversion" THEN to_be_bytes(version) ELSE dflt[k]]

\* Storage::ensure_version in an engine whose LATEST_STORAGE_VERSION is
\* latest: the default keyspace after it and the version it returns.
ensure_version_latest(dflt, latest) ==
    IF "oxversion" \in DOMAIN dflt
    THEN [default |-> dflt, version |-> from_be_bytes(dflt["oxversion"])]
    ELSE [default |-> set_version(dflt, latest), version |-> latest]

\* Storage::ensure_version
ensure_version(dflt) == ensure_version_latest(dflt, LATEST_STORAGE_VERSION)

RECURSIVE migrate_each(_, _)
\* for quad in this.quads() { if !quad.graph_name.is_default_graph() {
\* this.insert_named_graph(&quad.graph_name)?; } }
migrate_each(st, chain) ==
    LET r == ChainedDecodingQuadIterator_next(st, chain)
    IN  IF r.some
        THEN migrate_each(IF is_default_graph(r.item.graph_name) THEN st
                          ELSE insert_named_graph(st, r.item.graph_name).store,
                          r.it)
        ELSE st

\* Mutant of do_open: the migration runs for every stored version that is not
\* the latest.
do_open_migrates_any(st, dflt) ==
    LET ev == ensure_version(dflt)
        migrate == ev.version # LATEST_STORAGE_VERSION
        version == IF migrate THEN 1 ELSE ev.version
    IN  [store |-> IF migrate THEN migrate_each(st, quads) ELSE st,
         default |-> IF migrate THEN set_version(ev.default, version) ELSE ev.default,
         err |-> IF version < LATEST_STORAGE_VERSION THEN "outdated"
                 ELSE IF version = LATEST_STORAGE_VERSION THEN "None"
                 ELSE "too recent"]

\* Mutant of do_open: a store without oxversion is opened without writing it.
do_open_without_set_version(st, dflt) ==
    LET ev == [default |-> dflt,
               version |-> IF "oxversion" \in DOMAIN dflt
                           THEN from_be_bytes(dflt["oxversion"])
                           ELSE LATEST_STORAGE_VERSION]
        migrate == ev.version = 0
        version == IF migrate THEN 1 ELSE ev.version
    IN  [store |-> IF migrate THEN migrate_each(st, quads) ELSE st,
         default |-> IF migrate THEN set_version(ev.default, version) ELSE ev.default,
         err |-> IF version < LATEST_STORAGE_VERSION THEN "outdated"
                 ELSE IF version = LATEST_STORAGE_VERSION THEN "None"
                 ELSE "too recent"]

\* Mutant of do_open_latest: a stored version older than the latest is
\* accepted.
do_open_latest_accepts_outdated(st, dflt, latest) ==
    LET ev == ensure_version_latest(dflt, latest)
        migrate == ev.version = 0
        version == IF migrate THEN 1 ELSE ev.version
    IN  [store |-> IF migrate THEN migrate_each(st, quads) ELSE st,
         default |-> IF migrate THEN set_version(ev.default, version) ELSE ev.default,
         err |-> IF version <= latest THEN "None" ELSE "too recent"]

\* Mutant of do_open_latest: a version more recent than the latest is
\* overwritten with the latest before the open fails.
do_open_latest_rewrites_too_recent(st, dflt, latest) ==
    LET ev == ensure_version_latest(dflt, latest)
        migrate == ev.version = 0
        version == IF migrate THEN 1 ELSE ev.version
    IN  [store |-> IF migrate THEN migrate_each(st, quads) ELSE st,
         default |-> IF migrate THEN set_version(ev.default, version)
                     ELSE IF version > latest THEN set_version(ev.default, latest)
                     ELSE ev.default,
         err |-> IF version < latest THEN "outdated"
                 ELSE IF version = latest THEN "None"
                 ELSE "too recent"]

\* Storage::do_open in an engine whose LATEST_STORAGE_VERSION is latest, on
\* the trees and the default keyspace of a database: what they are after it,
\* and the error it returns ("None": Ok(this); otherwise the message of the
\* invalid_data_error).
do_open_latest(st, dflt, latest) ==
    LET ev == ensure_version_latest(dflt, latest)
        migrate == ev.version = 0
        version == IF migrate THEN 1 ELSE ev.version
    IN  [store |-> IF migrate THEN migrate_each(st, quads) ELSE st,
         default |-> IF migrate THEN set_version(ev.default, version) ELSE ev.default,
         err |-> IF version < latest THEN "outdated"
                 ELSE IF version = latest THEN "None"
                 ELSE "too recent"]

\* Storage::do_open
do_open(st, dflt) == do_open_latest(st, dflt, LATEST_STORAGE_VERSION)

(***************************************************************************)
(* The state.                                                              *)
(***************************************************************************)
VARIABLES
    trees,      \* the eleven keyspaces of the store
    inserted,   \* history: the quads inserted and not removed since
    last,       \* history: the call that completed last, and what it returned
    thr,        \* per thread: the position in the insert or remove call it is in
    tx,         \* per thread: the transaction it runs or ran last
    default     \* the default keyspace of the database: it holds oxversion

vars == <<trees, inserted, last, thr, tx, default>>

\* The threads that call the storage handle.
Threads == {1, 2}

\* A thread that is in no call.
IdleThread == [pc |-> "idle", op |-> "none", quad |-> NoQuad, next |-> 0]

\* A thread in an insert or remove call whose primary write found the key absent
\* (insert) or present (remove): its write number `next` of the siblings is due.
InCall(op, quad, next) == [pc |-> "siblings", op |-> op, quad |-> quad, next |-> next]

\* No error: the call returned Ok.
NoError == [kind |-> "None", value |-> "None"]

Call(op, graph_name, ret) ==
    [op |-> op, graph_name |-> graph_name, ret |-> ret, err |-> NoError]

\* A call that returned Err(err).
CallErr(op, err) == [op |-> op, graph_name |-> None, ret |-> FALSE, err |-> err]

\* The writes a transaction has made and not committed: keys put and keys
\* removed in the ten key-only trees, and the strings put in id2str.
NoWrites == [put |-> {}, del |-> {}, str |-> EmptyId2Str]

\* A thread that has run no transaction yet.  `pre` is the store when the
\* transaction began and `data` the quads inserted and not removed since, as
\* the calls of the closure leave them (history); `dropped` holds the writes of
\* the executions of the closure that ended in a conflict (history).
NoTx ==
    [state |-> "none", writes |-> NoWrites, pre |-> EmptyStorage, data |-> {},
     err |-> NoError, dropped |-> NoWrites]

\* Storage::new(): a temporary store, every tree empty; do_open has found no
\* oxversion and has written the latest version.
Init ==
    /\ trees = EmptyStorage
    /\ default = do_open(EmptyStorage, EmptyDefault).default
    /\ inserted = {}
    /\ last = Call("new", None, TRUE)
    /\ thr = [t \in Threads |-> IdleThread]
    /\ tx = [t \in Threads |-> NoTx]

(***************************************************************************)
(* Completed calls on the storage handle, one after the other.  `last`     *)
(* keeps the graph the call was about and the value it returned (TRUE for  *)
(* a call that returns Ok(())).                                            *)
(***************************************************************************)
Insert(quad) ==
    LET r == insert(trees, quad)
    IN  /\ len(trees) < MaxQuads \/ contains(trees, quad)
        /\ trees' = r.store
        /\ inserted' = inserted \cup {quad}
        /\ last' = Call("insert", quad.graph_name, r.ret)
        /\ UNCHANGED <<thr, tx, default>>

Remove(quad) ==
    LET r == remove(trees, quad)
    IN  /\ trees' = r.store
        /\ inserted' = inserted \ {quad}
        /\ last' = Call("remove", quad.graph_name, r.ret)
        /\ UNCHANGED <<thr, tx, default>>

InsertNamedGraph(graph_name) ==
    LET r == insert_named_graph(trees, graph_name)
    IN  /\ trees' = r.store
        /\ last' = Call("insert_named_graph", graph_name, r.ret)
        /\ UNCHANGED <<inserted, thr, tx, default>>

ClearGraph(graph_name) ==
    /\ trees' = clear_graph(trees, graph_name)
    /\ inserted' = {q \in inserted : q.graph_name # graph_name}
    /\ last' = Call("clear_graph", graph_name, TRUE)
    /\ UNCHANGED <<thr, tx, default>>

RemoveNamedGraph(graph_name) ==
    LET r == remove_named_graph(trees, graph_name)
    IN  /\ trees' = r.store
        /\ inserted' = {q \in inserted : q.graph_name # graph_name}
        /\ last' = Call("remove_named_graph", graph_name, r.ret)
        /\ UNCHANGED <<thr, tx, default>>

Clear ==
    /\ trees' = clear(trees)
    /\ inserted' = {}
    /\ last' = Call("clear", None, TRUE)
    /\ UNCHANGED <<thr, tx, default>>

Next ==
    \/ \E quad \in Quads : Insert(quad)
    \/ \E quad \in Quads : Remove(quad)
    \/ \E graph_name \in NamedGraphs : InsertNamedGraph(graph_name)
    \/ \E graph_name \in GraphNames : ClearGraph(graph_name)
    \/ \E graph_name \in GraphNames : RemoveNamedGraph(graph_name)
    \/ Clear

Spec == Init /\ [][Next]_vars

(***************************************************************************)
(* Non-transactional insert and remove, one tree write per step: the       *)
(* states between the writes of a call are states of the store.            *)
(***************************************************************************)
\* The quads the stepwise calls are made with: both objects, every graph.
StepQuads == {q \in Quads : q.subject = NamedNode(1) /\ q.predicate = NamedNode(2)}

\* The first write of Storage::insert; the call returns Ok(false) at once when
\* the primary key was present.
InsertPrimary(t, quad) ==
    LET is_new == ~Tree_contains_key(trees, insert_primary(quad))
    IN  /\ thr[t].pc = "idle"
        /\ UNCHANGED <<tx, default>>
        /\ len(trees) < MaxQuads \/ contains(trees, quad)
        /\ trees' = Tree_insert(trees, insert_primary(quad))
        /\ IF is_new
           THEN /\ thr' = [thr EXCEPT ![t] = InCall("insert", quad, 1)]
                /\ UNCHANGED <<inserted, last>>
           ELSE /\ last' = Call("insert", quad.graph_name, FALSE)
                /\ inserted' = inserted \cup {quad}
                /\ UNCHANGED thr

\* The next write of Storage::insert under is_new; after the last one the call
\* returns Ok(true).
InsertSibling(t) ==
    LET quad == thr[t].quad
        ws == insert_siblings(quad)
    IN  /\ thr[t].pc = "siblings" /\ thr[t].op = "insert"
        /\ UNCHANGED <<tx, default>>
        /\ trees' = Tree_insert(trees, ws[thr[t].next])
        /\ IF thr[t].next < Len(ws)
           THEN /\ thr' = [thr EXCEPT ![t].next = @ + 1]
                /\ UNCHANGED <<inserted, last>>
           ELSE /\ thr' = [thr EXCEPT ![t] = IdleThread]
                /\ last' = Call("insert", quad.graph_name, TRUE)
                /\ inserted' = inserted \cup {quad}

\* The first remove of Storage::remove; the call returns Ok(false) at once when
\* the primary key was absent.
RemovePrimary(t, quad) ==
    LET is_present == Tree_contains_key(trees, remove_primary(quad))
    IN  /\ thr[t].pc = "idle"
        /\ UNCHANGED <<tx, default>>
        /\ trees' = Tree_remove(trees, remove_primary(quad))
        /\ IF is_present
           THEN /\ thr' = [thr EXCEPT ![t] = InCall("remove", quad, 1)]
                /\ UNCHANGED <<inserted, last>>
           ELSE /\ last' = Call("remove", quad.graph_name, FALSE)
                /\ inserted' = inserted \ {quad}
                /\ UNCHANGED thr

\* The next remove of Storage::remove under is_present; after the last one the
\* call returns Ok(true).
RemoveSibling(t) ==
    LET quad == thr[t].quad
        ws == remove_siblings(quad)
    IN  /\ thr[t].pc = "siblings" /\ thr[t].op = "remove"
        /\ UNCHANGED <<tx, default>>
        /\ trees' = Tree_remove(trees, ws[thr[t].next])
        /\ IF thr[t].next < Len(ws)
           THEN /\ thr' = [thr EXCEPT ![t].next = @ + 1]
                /\ UNCHANGED <<inserted, last>>
           ELSE /\ thr' = [thr EXCEPT ![t] = IdleThread]
                /\ last' = Call("remove", quad.graph_name, TRUE)
                /\ inserted' = inserted \ {quad}

\* One thread calls insert and remove; every write is a step.
NextSteps ==
    \/ \E quad \in StepQuads : InsertPrimary(1, quad)
    \/ InsertSibling(1)
    \/ \E quad \in StepQuads : RemovePrimary(1, quad)
    \/ RemoveSibling(1)

SpecSteps == Init /\ [][NextSteps]_vars

(***************************************************************************)
(* Storage::transaction and StorageTransaction: the closure's calls write  *)
(* to the transactional trees; sled applies the writes of all of them at   *)
(* once when the closure returns Ok, and drops them when it returns Err.   *)
(***************************************************************************)
\* Mutant of TxTrees: the registry is left out of the transaction, its handle
\* writes through to the tree.
TxTrees_without_graphs ==
    {"id2str", "spog", "posg", "ospg", "gspo", "gpos", "gosp", "dspo", "dpos", "dosp"}

\* The trees Storage::transaction opens the sled transaction on.
TxTrees ==
    {"id2str", "spog", "posg", "ospg", "gspo", "gpos", "gosp", "dspo", "dpos", "dosp",
     "graphs"}

\* One tree as a transaction with the writes w reads it: its own writes over
\* the tree.
TxTreeView(st, w, t) ==
    (st[t] \cup {x.key : x \in {y \in w.put : y.tree = t}})
        \ {x.key : x \in {y \in w.del : y.tree = t}}

\* The store as a transaction with the writes w reads it.
TxView(st, w) ==
    [id2str |-> [h \in DOMAIN st.id2str \cup DOMAIN w.str |->
                    IF h \in DOMAIN w.str THEN w.str[h] ELSE st.id2str[h]],
     spog |-> TxTreeView(st, w, "spog"), posg |-> TxTreeView(st, w, "posg"),
     ospg |-> TxTreeView(st, w, "ospg"), gspo |-> TxTreeView(st, w, "gspo"),
     gpos |-> TxTreeView(st, w, "gpos"), gosp |-> TxTreeView(st, w, "gosp"),
     dspo |-> TxTreeView(st, w, "dspo"), dpos |-> TxTreeView(st, w, "dpos"),
     dosp |-> TxTreeView(st, w, "dosp"), graphs |-> TxTreeView(st, w, "graphs")]

\* A transaction in progress: the store and the transaction's own writes.
TxState(st, w) == [store |-> st, writes |-> w]

\* TransactionalTree::insert(key, &[]) on a handle of StorageTransaction.
TransactionalTree_insert(s, x) ==
    IF x.tree \in TxTrees
    THEN TxState(s.store, [s.writes EXCEPT !.put = @ \cup {x}, !.del = @ \ {x}])
    ELSE TxState(Tree_insert(s.store, x), s.writes)

\* TransactionalTree::remove(key) on a handle of StorageTransaction.
TransactionalTree_remove(s, x) ==
    IF x.tree \in TxTrees
    THEN TxState(s.store, [s.writes EXCEPT !.del = @ \cup {x}, !.put = @ \ {x}])
    ELSE TxState(Tree_remove(s.store, x), s.writes)

\* Whether the transaction reads the key as present.
TransactionalTree_contains(s, x) == Tree_contains_key(TxView(s.store, s.writes), x)

RECURSIVE TransactionalTree_insert_all(_, _)
TransactionalTree_insert_all(s, ws) ==
    IF ws = <<>> THEN s
    ELSE TransactionalTree_insert_all(TransactionalTree_insert(s, Head(ws)), Tail(ws))

RECURSIVE TransactionalTree_remove_all(_, _)
TransactionalTree_remove_all(s, ws) ==
    IF ws = <<>> THEN s
    ELSE TransactionalTree_remove_all(TransactionalTree_remove(s, Head(ws)), Tail(ws))

\* The write of StorageTransaction::insert that decides is_new.
tx_insert_primary(quad) ==
    IF is_default_graph(quad.graph_name)
    THEN Write("dspo", write_spo_quad(quad))
    ELSE Write("spog", write_spog_quad(quad))

\* Mutant of tx_insert_siblings: the graph is not recorded in the registry.
tx_insert_siblings_without_graphs(quad) ==
    IF is_default_graph(quad.graph_name)
    THEN <<Write("dpos", write_pos_quad(quad)),
           Write("dosp", write_osp_quad(quad))>>
    ELSE <<Write("posg", write_posg_quad(quad)),
           Write("ospg", write_ospg_quad(quad)),
           Write("gspo", write_gspo_quad(quad)),
           Write("gpos", write_gpos_quad(quad)),
           Write("gosp", write_gosp_quad(quad))>>

\* The writes of StorageTransaction::insert that follow when is_new.
tx_insert_siblings(quad) ==
    IF is_default_graph(quad.graph_name)
    THEN <<Write("dpos", write_pos_quad(quad)),
           Write("dosp", write_osp_quad(quad))>>
    ELSE <<Write("posg", write_posg_quad(quad)),
           Write("ospg", write_ospg_quad(quad)),
           Write("gspo", write_gspo_quad(quad)),
           Write("gpos", write_gpos_quad(quad)),
           Write("gosp", write_gosp_quad(quad)),
           Write("graphs", write_term(<<>>, quad.graph_name))>>

\* StorageTransaction::insert: the transaction after it and Ok(is_new).
tx_insert(s, quad) ==
    LET is_new == ~TransactionalTree_contains(s, tx_insert_primary(quad))
        s1 == TransactionalTree_insert(s, tx_insert_primary(quad))
    IN  [tx |-> IF is_new
                THEN TransactionalTree_insert_all(s1, tx_insert_siblings(quad))
                ELSE s1,
         ret |-> is_new]

\* The write of StorageTransaction::remove that decides is_present.
tx_remove_primary(quad) ==
    IF is_default_graph(quad.graph_name)
    THEN Write("dspo", write_spo_quad(quad))
    ELSE Write("spog", write_spog_quad(quad))

\* The writes of StorageTransaction::remove that follow when is_present.
tx_remove_siblings(quad) ==
    IF is_default_graph(quad.graph_name)
    THEN <<Write("dpos", write_pos_quad(quad)),
           Write("dosp", write_osp_quad(quad))>>
    ELSE <<Write("posg", write_posg_quad(quad)),
           Write("ospg", write_ospg_quad(quad)),
           Write("gspo", write_gspo_quad(quad)),
           Write("gpos", write_gpos_quad(quad)),
           Write("gosp", write_gosp_quad(quad))>>

\* StorageTransaction::remove: the transaction after it and Ok(is_present).
tx_remove(s, quad) ==
    LET is_present == TransactionalTree_contains(s, tx_remove_primary(quad))
        s1 == TransactionalTree_remove(s, tx_remove_primary(quad))
    IN  [tx |-> IF is_present
                THEN TransactionalTree_remove_all(s1, tx_remove_siblings(quad))
                ELSE s1,
         ret |-> is_present]

\* StorageTransaction::insert_named_graph
tx_insert_named_graph(s, graph_name) ==
    [tx |-> TransactionalTree_insert(s, Write("graphs", encode_term(graph_name))),
     ret |-> ~TransactionalTree_contains(s, Write("graphs", encode_term(graph_name)))]

\* StorageTransaction::insert_str
tx_insert_str(s, key, value) ==
    [tx |-> IF "id2str" \in TxTrees
            THEN TxState(s.store,
                     [s.writes EXCEPT !.str =
                         [h \in DOMAIN @ \cup {key} |->
                             IF h = key THEN as_bytes(value) ELSE @[h]]])
            ELSE TxState([s.store EXCEPT !.id2str =
                             [h \in DOMAIN @ \cup {key} |->
                                 IF h = key THEN as_bytes(value) ELSE @[h]]],
                         s.writes),
     ret |-> key \notin DOMAIN TxView(s.store, s.writes).id2str]

\* StorageTransaction::get_str and contains_str
tx_get_str(s, key) == get_str(TxView(s.store, s.writes), key)

tx_contains_str(s, key) == key \in DOMAIN TxView(s.store, s.writes).id2str

\* ConflictableTransactionError::Abort(e), what a closure returns to abort.
ConflictableAbort(e) == [kind |-> "Abort", value |-> e]

\* Mutant of into_sled_conflictable: a conflict is handed to sled as a storage
\* error.
into_sled_conflictable_conflict_as_storage(e) ==
    CASE e.kind = "Abort" -> [kind |-> "Abort", value |-> e.value]
      [] e.kind = "Conflict" -> [kind |-> "Storage", value |-> "None"]
      [] e.kind = "Storage" -> [kind |-> "Storage", value |-> e.value]

\* From<ConflictableTransactionError<T>> for Sled2ConflictableTransactionError<T>
into_sled_conflictable(e) ==
    CASE e.kind = "Abort" -> [kind |-> "Abort", value |-> e.value]
      [] e.kind = "Conflict" -> [kind |-> "Conflict", value |-> "None"]
      [] e.kind = "Storage" -> [kind |-> "Storage", value |-> e.value]

\* Mutant of from_sled_unabortable: a storage error is taken for a conflict.
from_sled_unabortable_storage_as_conflict(e) ==
    CASE e.kind = "Storage" -> [kind |-> "Conflict", value |-> "None"]
      [] e.kind = "Conflict" -> [kind |-> "Conflict", value |-> "None"]

\* From<Sled2UnabortableTransactionError> for UnabortableTransactionError
from_sled_unabortable(e) ==
    CASE e.kind = "Storage" -> [kind |-> "Storage", value |-> e.value]
      [] e.kind = "Conflict" -> [kind |-> "Conflict", value |-> "None"]

\* Mutant of conflictable_from_unabortable: a conflict becomes a storage error.
conflictable_from_unabortable_conflict_as_storage(e) ==
    CASE e.kind = "Storage" -> [kind |-> "Storage", value |-> e.value]
      [] e.kind = "Conflict" -> [kind |-> "Storage", value |-> "None"]

\* From<UnabortableTransactionError> for ConflictableTransactionError<T>
conflictable_from_unabortable(e) ==
    CASE e.kind = "Storage" -> [kind |-> "Storage", value |-> e.value]
      [] e.kind = "Conflict" -> [kind |-> "Conflict", value |-> "None"]

\* Mutant of from_sled_transaction_error: an abort is reported as a storage error.
from_sled_transaction_error_as_storage(e) ==
    CASE e.kind = "Abort" -> [kind |-> "Storage", value |-> e.value]
      [] e.kind = "Storage" -> [kind |-> "Storage", value |-> e.value]

\* From<Sled2TransactionError<T>> for TransactionError<T>
from_sled_transaction_error(e) ==
    CASE e.kind = "Abort" -> [kind |-> "Abort", value |-> e.value]
      [] e.kind = "Storage" -> [kind |-> "Storage", value |-> e.value]

\* The quads, the strings and the errors the closures of the model use.
TxQuads ==
    {q \in Quads : q.subject = NamedNode(1) /\ q.predicate = NamedNode(2)
                       /\ q.object = NamedNode(1)}

\* The string the closures intern: "s\u00E9", a char of one byte and one of two.
TxStrings == [h \in {1} |-> <<115, 233>>]

UserErrors == {"E1", "E2"}

\* Storage::transaction is called: sled hands the closure the transactional trees.
TxBegin(t) ==
    /\ tx[t].state # "open" /\ thr[t].pc = "idle"
    /\ tx' = [tx EXCEPT ![t] = [state |-> "open", writes |-> NoWrites,
                                pre |-> trees, data |-> inserted, err |-> NoError,
                                dropped |-> NoWrites]]
    /\ UNCHANGED <<trees, inserted, last, thr, default>>

\* The closure calls insert on its StorageTransaction.
TxInsert(t, quad) ==
    LET s == TxState(trees, tx[t].writes)
        r == tx_insert(s, quad)
    IN  /\ tx[t].state = "open"
        /\ len(TxView(trees, tx[t].writes)) < MaxQuads
              \/ contains(TxView(trees, tx[t].writes), quad)
        /\ trees' = r.tx.store
        /\ tx' = [tx EXCEPT ![t].writes = r.tx.writes, ![t].data = @ \cup {quad}]
        /\ UNCHANGED <<inserted, last, thr, default>>

\* The closure calls remove on its StorageTransaction.
TxRemove(t, quad) ==
    LET s == TxState(trees, tx[t].writes)
        r == tx_remove(s, quad)
    IN  /\ tx[t].state = "open"
        /\ trees' = r.tx.store
        /\ tx' = [tx EXCEPT ![t].writes = r.tx.writes, ![t].data = @ \ {quad}]
        /\ UNCHANGED <<inserted, last, thr, default>>

\* The closure calls insert_named_graph on its StorageTransaction.
TxInsertNamedGraph(t, graph_name) ==
    LET s == TxState(trees, tx[t].writes)
        r == tx_insert_named_graph(s, graph_name)
    IN  /\ tx[t].state = "open"
        /\ trees' = r.tx.store
        /\ tx' = [tx EXCEPT ![t].writes = r.tx.writes]
        /\ UNCHANGED <<inserted, last, thr, default>>

\* The closure calls insert_str on its StorageTransaction.
TxInsertStr(t, key, value) ==
    LET s == TxState(trees, tx[t].writes)
        r == tx_insert_str(s, key, value)
    IN  /\ tx[t].state = "open"
        /\ trees' = r.tx.store
        /\ tx' = [tx EXCEPT ![t].writes = r.tx.writes]
        /\ UNCHANGED <<inserted, last, thr, default>>

\* The value the closures of the model return: what get_str answers them for
\* the first hash when they return.
ClosureValue(t) == tx_get_str(TxState(trees, tx[t].writes), 1)

\* The closure returns Ok(value): sled commits the writes of the eleven trees,
\* and transaction returns Ok(value).
TxCommit(t) ==
    /\ tx[t].state = "open"
    /\ trees' = TxView(trees, tx[t].writes)
    /\ inserted' = tx[t].data
    /\ tx' = [tx EXCEPT ![t].state = "committed"]
    /\ last' = Call("transaction", None, ClosureValue(t))
    /\ UNCHANGED <<thr, default>>

\* The closure returns Err(Abort(e)): the error is converted for sled, sled drops
\* the writes and returns its error, which is converted for the caller.
TxAbort(t, e) ==
    LET sled_err == into_sled_conflictable(ConflictableAbort(e))
    IN  /\ tx[t].state = "open"
        /\ sled_err.kind # "Conflict"
        /\ tx' = [tx EXCEPT ![t].state = "aborted", ![t].err = ConflictableAbort(e)]
        /\ last' = CallErr("transaction", from_sled_transaction_error(sled_err))
        /\ UNCHANGED <<trees, inserted, thr, default>>

\* The errors a call on a transactional tree returns.
IoErrors == {"io"}

SubstrateErrors ==
    {[kind |-> "Conflict", value |-> "None"]}
        \cup {[kind |-> "Storage", value |-> io] : io \in IoErrors}

\* The writes w added to the writes d dropped before.
Dropped(d, w) ==
    [put |-> d.put \cup w.put, del |-> d.del \cup w.del,
     str |-> [h \in DOMAIN d.str \cup DOMAIN w.str |->
                 IF h \in DOMAIN w.str THEN w.str[h] ELSE d.str[h]]]

\* Mutant of TxOpError: on a conflict the writes of the execution are applied
\* before the closure is run again.
TxOpError_applies_dropped(t, e) ==
    LET closure_err == conflictable_from_unabortable(from_sled_unabortable(e))
        sled_err == into_sled_conflictable(closure_err)
    IN  /\ tx[t].state = "open"
        /\ IF sled_err.kind = "Conflict"
           THEN /\ tx' = [tx EXCEPT ![t].writes = NoWrites, ![t].data = inserted,
                                    ![t].err = e,
                                    ![t].dropped = Dropped(@, tx[t].writes)]
                /\ trees' = TxView(trees, tx[t].writes)
                /\ UNCHANGED last
           ELSE /\ tx' = [tx EXCEPT ![t].state = "failed", ![t].err = e]
                /\ last' = CallErr("transaction", from_sled_transaction_error(sled_err))
                /\ UNCHANGED trees
        /\ UNCHANGED <<inserted, thr, default>>

\* A call of the closure on a transactional tree returns the error e; the
\* closure returns it with `?`, and it is converted for sled. On a conflict sled
\* drops the writes and runs the closure again: Storage::transaction has not
\* returned and the trees are those of the start of the call. On a storage
\* error sled drops the writes and returns the error, which is converted for
\* the caller.
TxOpError(t, e) ==
    LET closure_err == conflictable_from_unabortable(from_sled_unabortable(e))
        sled_err == into_sled_conflictable(closure_err)
    IN  /\ tx[t].state = "open"
        /\ IF sled_err.kind = "Conflict"
           THEN /\ tx' = [tx EXCEPT ![t].writes = NoWrites, ![t].data = inserted,
                                    ![t].err = e,
                                    ![t].dropped = Dropped(@, tx[t].writes)]
                /\ UNCHANGED last
           ELSE /\ tx' = [tx EXCEPT ![t].state = "failed", ![t].err = e]
                /\ last' = CallErr("transaction", from_sled_transaction_error(sled_err))
        /\ UNCHANGED <<trees, inserted, thr, default>>

\* One thread runs transactions, one after the other.
NextTx ==
    \/ TxBegin(1)
    \/ \E quad \in TxQuads : TxInsert(1, quad)
    \/ \E quad \in TxQuads : TxRemove(1, quad)
    \/ \E graph_name \in NamedGraphs : TxInsertNamedGraph(1, graph_name)
    \/ \E key \in DOMAIN TxStrings : TxInsertStr(1, key, TxStrings[key])
    \/ TxCommit(1)
    \/ \E e \in UserErrors : TxAbort(1, e)

SpecTx == Init /\ [][NextTx]_vars

\* The quads the closures of the transactions with errors use.
TxErrQuads == {q \in TxQuads : q.graph_name # NamedNode(1)}

\* One thread runs transactions whose calls may fail.
NextTxErr ==
    \/ TxBegin(1)
    \/ \E quad \in TxErrQuads : TxInsert(1, quad)
    \/ \E quad \in TxErrQuads : TxRemove(1, quad)
    \/ \E key \in DOMAIN TxStrings : TxInsertStr(1, key, TxStrings[key])
    \/ TxCommit(1)
    \/ \E e \in UserErrors : TxAbort(1, e)
    \/ \E e \in SubstrateErrors : TxOpError(1, e)

SpecTxErr == Init /\ [][NextTxErr]_vars

(***************************************************************************)
(* The store with its interner: the callers encode a term, which interns   *)
(* the string of every hash of the term, and then hand it to insert or     *)
(* insert_named_graph; clear is taken tree by tree.                        *)
(***************************************************************************)
\* The string each hash is the hash of: "s\u00E9" and "o\u20AC".
Strings ==
    [h \in StrHashes |-> IF h = 1 THEN <<115, 233>> ELSE <<111, 8364>>]

\* The quads these calls are made with: both objects, every graph.
StrQuads == {q \in Quads : q.subject = NamedNode(1) /\ q.predicate = NamedNode(1)}

\* The string hashes inside an encoded term.
TermHashes(term) == IF term.type = "NamedNode" THEN {term.iri_id} ELSE {}

QuadHashes(quad) ==
    TermHashes(quad.subject) \cup TermHashes(quad.predicate)
        \cup TermHashes(quad.object) \cup TermHashes(quad.graph_name)

\* The interner holds the strings of these hashes.
Interned(st, hashes) == \A h \in hashes : contains_str(st, h)

RECURSIVE encode_strs(_, _)
\* The encoder of the callers, on the terms it encodes: insert_str for the
\* string of every hash.
encode_strs(st, hashes) ==
    IF hashes = {} THEN st
    ELSE LET h == CHOOSE x \in hashes : TRUE
         IN  encode_strs(insert_str(st, h, Strings[h]).store, hashes \ {h})

StrInsertStr(key, value) ==
    LET r == insert_str(trees, key, value)
    IN  /\ thr[1].pc = "idle"
        /\ trees' = r.store
        /\ last' = Call("insert_str", None, r.ret)
        /\ UNCHANGED <<inserted, thr, tx, default>>

\* A caller encodes a quad and inserts it.
StrInsert(quad) ==
    LET st == encode_strs(trees, QuadHashes(quad))
        r == insert(st, quad)
    IN  /\ thr[1].pc = "idle"
        /\ len(trees) < MaxQuads \/ contains(trees, quad)
        /\ trees' = r.store
        /\ inserted' = inserted \cup {quad}
        /\ last' = Call("insert", quad.graph_name, r.ret)
        /\ UNCHANGED <<thr, tx, default>>

\* A caller encodes a graph name and registers it.
StrInsertNamedGraph(graph_name) ==
    LET st == encode_strs(trees, TermHashes(graph_name))
        r == insert_named_graph(st, graph_name)
    IN  /\ thr[1].pc = "idle"
        /\ trees' = r.store
        /\ last' = Call("insert_named_graph", graph_name, r.ret)
        /\ UNCHANGED <<inserted, thr, tx, default>>

StrRemove(quad) == thr[1].pc = "idle" /\ Remove(quad)

StrClearGraph(graph_name) == thr[1].pc = "idle" /\ ClearGraph(graph_name)

StrRemoveNamedGraph(graph_name) == thr[1].pc = "idle" /\ RemoveNamedGraph(graph_name)

\* Storage::clear, one tree per step; the call returns after the last.
ClearTree(t) ==
    LET i == IF thr[t].pc = "idle" THEN 1 ELSE thr[t].next
        done == i = Len(ClearOrder)
    IN  /\ thr[t].pc = "idle" \/ (thr[t].pc = "clearing" /\ thr[t].op = "clear")
        /\ trees' = Tree_clear(trees, ClearOrder[i])
        /\ thr' = [thr EXCEPT ![t] = IF done THEN IdleThread
                                       ELSE [pc |-> "clearing", op |-> "clear",
                                             quad |-> NoQuad, next |-> i + 1]]
        /\ inserted' = IF done THEN {} ELSE inserted
        /\ last' = IF done THEN Call("clear", None, TRUE) ELSE last
        /\ UNCHANGED <<tx, default>>

NextStr ==
    \/ \E key \in StrHashes : StrInsertStr(key, Strings[key])
    \/ \E quad \in StrQuads : StrInsert(quad)
    \/ \E graph_name \in NamedGraphs : StrInsertNamedGraph(graph_name)
    \/ \E quad \in StrQuads : StrRemove(quad)
    \/ \E graph_name \in GraphNames : StrClearGraph(graph_name)
    \/ \E graph_name \in GraphNames : StrRemoveNamedGraph(graph_name)
    \/ ClearTree(1)

SpecStr == Init /\ [][NextStr]_vars

(***************************************************************************)
(* What the claims speak of.                                               *)
(***************************************************************************)
\* The keys of a quad, one per keyspace applicable to its graph class.
ApplicableKeys(quad) ==
    IF is_default_graph(quad.graph_name)
    THEN {Write("dspo", write_spo_quad(quad)),
          Write("dpos", write_pos_quad(quad)),
          Write("dosp", write_osp_quad(quad))}
    ELSE {Write("spog", write_spog_quad(quad)),
          Write("posg", write_posg_quad(quad)),
          Write("ospg", write_ospg_quad(quad)),
          Write("gspo", write_gspo_quad(quad)),
          Write("gpos", write_gpos_quad(quad)),
          Write("gosp", write_gosp_quad(quad))}

InAllKeyspaces(st, quad) == \A w \in ApplicableKeys(quad) : w.key \in st[w.tree]

InNoKeyspace(st, quad) == \A w \in ApplicableKeys(quad) : w.key \notin st[w.tree]

\* The keys the nine quad keyspaces hold for a set of quads.
KeysOfQuads(tree, quads_in) ==
    {w.key : w \in {x \in UNION {ApplicableKeys(q) : q \in quads_in} : x.tree = tree}}

Range(seq) == {seq[i] : i \in 1..Len(seq)}

Matches(quad, s, p, o, g) ==
    /\ s # None => quad.subject = s
    /\ p # None => quad.predicate = p
    /\ o # None => quad.object = o
    /\ g # None => quad.graph_name = g

OptTerms == Terms \cup {None}

OptGraphNames == GraphNames \cup {None}

\* C1: after any sequence of completed calls the index set is consistent: every
\* quad inserted and not removed since is in all of its applicable keyspaces, a
\* quad that is not is in none of them (so DSPO, DPOS and DOSP hold the same
\* default-graph quads and the six named-graph keyspaces the same named-graph
\* quads), and the keyspaces hold no other key.
C1_IndexConsistency ==
    /\ \A q \in Quads :
          /\ q \in inserted => InAllKeyspaces(trees, q)
          /\ q \notin inserted => InNoKeyspace(trees, q)
          /\ \A w1, w2 \in ApplicableKeys(q) :
                w1.key \in trees[w1.tree] <=> w2.key \in trees[w2.tree]
    /\ \A t \in QuadTreeNames : trees[t] = KeysOfQuads(t, inserted)

\* C1 witness: a named-graph quad is stored after a default-graph quad was
\* inserted and removed.
C1_Witness ==
    /\ last.op = "remove" /\ last.ret /\ is_default_graph(last.graph_name)
    /\ \E q \in inserted : ~is_default_graph(q.graph_name)

\* C2: for every subset of bound positions and every binding of them,
\* quads_for_pattern yields exactly the stored quads that match, each once.
C2_PatternScan ==
    \A s \in OptTerms, p \in OptTerms, o \in OptTerms, g \in OptGraphNames :
        LET out == Collect(trees, quads_for_pattern(s, p, o, g))
        IN  /\ Range(out) = {q \in inserted : Matches(q, s, p, o, g)}
            /\ Len(out) = Cardinality(Range(out))

\* C2 witness: with a default-graph and a named-graph quad stored, a scan with
\* the subject and the object bound yields one of them and not the other.
C2_Witness ==
    \E q1, q2 \in inserted :
        /\ is_default_graph(q1.graph_name) /\ ~is_default_graph(q2.graph_name)
        /\ q1.subject # q1.object
        /\ q2.subject = q1.object /\ q2.object = q1.subject
        /\ Collect(trees, quads_for_pattern(q1.subject, None, q1.object, None)) = <<q1>>

\* C5: the graph of every stored named-graph quad is in the registry:
\* named_graphs() yields it and contains_named_graph is true.
C5_RegistryHoldsGraphs ==
    \A q \in Quads :
        (~is_default_graph(q.graph_name) /\ (contains(trees, q) \/ q \in inserted))
            => /\ contains_named_graph(trees, q.graph_name)
               /\ q.graph_name \in Range(named_graphs(trees))

\* C5 witness: a named-graph quad was inserted as new, its graph not registered
\* by insert_named_graph before, while a quad of another named graph is stored.
C5_Witness ==
    /\ last.op = "insert" /\ last.ret /\ ~is_default_graph(last.graph_name)
    /\ \E q \in inserted :
          ~is_default_graph(q.graph_name) /\ q.graph_name # last.graph_name

\* q is yielded by every scan whose binding matches it.
YieldedByMatchingScans(st, q) ==
    \A s \in {None, q.subject}, p \in {None, q.predicate},
       o \in {None, q.object}, g \in {None, q.graph_name} :
        q \in Range(Collect(st, quads_for_pattern(s, p, o, g)))

\* C6: once insert(q) has returned and until a remove, clear_graph,
\* remove_named_graph or clear that covers q is executed, contains(q) is true
\* and every scan whose binding matches q yields q.
C6_InsertVisibleLater ==
    \A q \in inserted : contains(trees, q) /\ YieldedByMatchingScans(trees, q)

\* C6 witness: a named-graph quad inserted earlier is still stored after calls
\* that did not cover it: a remove of another quad of its graph that is stored.
C6_Witness ==
    /\ last.op = "remove" /\ last.ret
    /\ \E q \in inserted : q.graph_name = last.graph_name /\ ~is_default_graph(q.graph_name)

\* C8: insert(q) returns new iff q was not stored before the call; a second
\* insert(q) directly after it returns already_present and leaves the eleven
\* keyspaces as the first left them.
C8_InsertIdempotent ==
    \A q \in Quads :
        (len(trees) < MaxQuads \/ contains(trees, q)) =>
            LET first == insert(trees, q)
                second == insert(first.store, q)
            IN  /\ first.ret = (q \notin inserted)
                /\ second.ret = FALSE
                /\ second.store = first.store
                /\ InAllKeyspaces(first.store, q)

\* C8 witness: an insert has returned already_present for a named-graph quad.
C8_Witness ==
    /\ last.op = "insert" /\ ~last.ret /\ ~is_default_graph(last.graph_name)
    /\ Cardinality(inserted) = MaxQuads

\* C9: remove(q) of a quad that is not stored returns absent and changes no
\* keyspace; of a stored quad it returns removed and deletes q's key from every
\* applicable permutation keyspace, and no other key.
C9_RemoveEffect ==
    \A q \in Quads :
        LET r == remove(trees, q)
        IN  IF q \in inserted
            THEN /\ r.ret
                 /\ InNoKeyspace(r.store, q)
                 /\ \A t \in QuadTreeNames : r.store[t] = trees[t] \ KeysOfQuads(t, {q})
                 /\ r.store.graphs = trees.graphs /\ r.store.id2str = trees.id2str
            ELSE ~r.ret /\ r.store = trees

\* C9 witness: a remove has returned removed and left other quads stored.
C9_Witness ==
    /\ last.op = "remove" /\ last.ret /\ Cardinality(inserted) = MaxQuads - 1
    /\ \E q \in inserted : is_default_graph(q.graph_name)

\* C10: remove(q) never changes the registry; after the only quad of a named
\* graph G is removed, named_graphs() still yields G and the scan with g = G
\* yields nothing.
C10_RemoveKeepsRegistry ==
    /\ \A q \in Quads : remove(trees, q).store.graphs = trees.graphs
    /\ (/\ last.op = "remove" /\ last.ret /\ ~is_default_graph(last.graph_name)
        /\ \A q \in inserted : q.graph_name # last.graph_name)
            => /\ contains_named_graph(trees, last.graph_name)
               /\ last.graph_name \in Range(named_graphs(trees))
               /\ Collect(trees, quads_for_pattern(None, None, None, last.graph_name)) = <<>>

\* C10 witness: the last quad of a named graph was removed; the graph is still
\* registered, and so is another one that holds a quad.
C10_Witness ==
    /\ last.op = "remove" /\ last.ret /\ ~is_default_graph(last.graph_name)
    /\ \A q \in inserted : q.graph_name # last.graph_name
    /\ \E q \in inserted : ~is_default_graph(q.graph_name)
    /\ Cardinality(trees.graphs) = 2

\* The call thread t is in has written its primary key and not yet all siblings.
Writing(t) == thr[t].pc = "siblings"

ReaderSees(st) ==
    [contains |-> {q \in Quads : contains(st, q)},
     quads |-> Collect(st, quads),
     named_graphs |-> named_graphs(st),
     get_str |-> [h \in StrHashes |-> get_str(st, h)]]

\* C3: a transaction is atomic across the eleven keyspaces. While its closure
\* runs, the trees a reader reads are the trees from before the transaction
\* (none of its updates), and once it has committed they are those trees with
\* every write of the transaction applied (all of them); contains, the scans,
\* named_graphs and get_str answer accordingly, and a quad is never in only
\* some of its keyspaces.
C3_TransactionAtomic ==
    /\ tx[1].state = "open"
          => /\ trees = tx[1].pre
             /\ ReaderSees(trees) = ReaderSees(tx[1].pre)
    /\ tx[1].state = "committed"
          => /\ trees = TxView(tx[1].pre, tx[1].writes)
             /\ ReaderSees(trees) = ReaderSees(TxView(tx[1].pre, tx[1].writes))
             /\ \A w \in tx[1].writes.put : w.key \in trees[w.tree]
             /\ \A w \in tx[1].writes.del : w.key \notin trees[w.tree]
             /\ \A h \in DOMAIN tx[1].writes.str : trees.id2str[h] = tx[1].writes.str[h]
    /\ \A q \in Quads : InAllKeyspaces(trees, q) \/ InNoKeyspace(trees, q)

\* C3 witness: a transaction has committed that removed a default-graph quad
\* stored before it, inserted a named-graph quad and a string.
C3_Witness ==
    /\ tx[1].state = "committed"
    /\ \E w \in tx[1].writes.del : w.tree = "dspo" /\ w.key \in tx[1].pre.dspo
    /\ \E w \in tx[1].writes.put : w.tree = "gosp"
    /\ \E w \in tx[1].writes.put : w.tree = "graphs"
    /\ DOMAIN tx[1].writes.str # {}

\* C4: when the closure returned Abort(E), transaction returned
\* TransactionError::Abort(E) and the eleven keyspaces are what they were before
\* the call: len is unchanged, contains answers as before, and no quad the
\* closure inserted is visible to contains.
C4_AbortRollsBack ==
    tx[1].state = "aborted"
        => /\ last.op = "transaction"
           /\ tx[1].err.kind = "Abort" /\ tx[1].err.value \in UserErrors
           /\ last.err = [kind |-> "Abort", value |-> tx[1].err.value]
           /\ trees = tx[1].pre
           /\ len(trees) = len(tx[1].pre)
           /\ \A q \in Quads : contains(trees, q) <=> q \in inserted
           /\ \A q \in tx[1].data \ inserted : ~contains(trees, q)
           /\ named_graphs(trees) = named_graphs(tx[1].pre)
           /\ \A h \in StrHashes : get_str(trees, h) = get_str(tx[1].pre, h)

\* C4 witness: a closure has aborted after it removed a quad stored before the
\* call, inserted another quad into a named graph, registered a graph and
\* inserted a string.
C4_Witness ==
    /\ tx[1].state = "aborted"
    /\ inserted \ tx[1].data # {}
    /\ \E q \in tx[1].data \ inserted : ~is_default_graph(q.graph_name)
    /\ \E w \in tx[1].writes.put : w.tree = "graphs"
    /\ DOMAIN tx[1].writes.str # {}
    /\ len(trees) > 0

\* The quads of the universe in the graph g.
QuadsOfGraph(g) == {q \in Quads : q.graph_name = g}

\* C11: remove_named_graph(g) on a named graph g leaves no key of a quad of g
\* in any of the six named-graph keyspaces and deletes g from the registry; the
\* keys of every other graph, the default-graph keyspaces, the other registry
\* entries and the interner are unchanged. It returns whether g was registered.
\* (Stated of the calls made while no other call is in progress.)
C11_RemoveNamedGraph ==
    \A g \in {x \in NamedGraphs : thr[1].pc = "idle"} :
        LET r == remove_named_graph(trees, g)
        IN  /\ \A q \in QuadsOfGraph(g) : InNoKeyspace(r.store, q) /\ ~contains(r.store, q)
            /\ Collect(r.store, quads_for_pattern(None, None, None, g)) = <<>>
            /\ ~contains_named_graph(r.store, g)
            /\ g \notin Range(named_graphs(r.store))
            /\ r.store.graphs = trees.graphs \ {encode_term(g)}
            /\ r.ret = contains_named_graph(trees, g)
            /\ \A t \in QuadTreeNames : r.store[t] = trees[t] \ KeysOfQuads(t, QuadsOfGraph(g))
            /\ \A q \in Quads \ QuadsOfGraph(g) : contains(r.store, q) <=> q \in inserted
            /\ r.store.id2str = trees.id2str

\* C11 witness: remove_named_graph has returned true for a named graph while a
\* quad of another named graph stays stored.
C11_Witness ==
    /\ thr[1].pc = "idle" /\ DOMAIN trees.id2str = StrHashes
    /\ last.op = "remove_named_graph" /\ last.ret /\ ~is_default_graph(last.graph_name)
    /\ \E q \in inserted : ~is_default_graph(q.graph_name)
    /\ \A q \in inserted : q.graph_name # last.graph_name
    /\ ~contains_named_graph(trees, last.graph_name)

\* C12: clear_graph(g) leaves no key of a quad of g in any keyspace. For a named
\* g the registry is as before, so g is registered afterwards iff it was; for
\* the default graph DSPO, DPOS and DOSP are empty. The keys of the other
\* graphs and the interner are unchanged. (Stated of the calls made while no
\* other call is in progress.)
C12_ClearGraph ==
    \A g \in {x \in GraphNames : thr[1].pc = "idle"} :
        LET st == clear_graph(trees, g)
        IN  /\ \A q \in QuadsOfGraph(g) : InNoKeyspace(st, q) /\ ~contains(st, q)
            /\ Collect(st, quads_for_pattern(None, None, None, g)) = <<>>
            /\ st.graphs = trees.graphs
            /\ ~is_default_graph(g)
                  => (contains_named_graph(st, g) <=> contains_named_graph(trees, g))
            /\ is_default_graph(g) => st.dspo = {} /\ st.dpos = {} /\ st.dosp = {}
            /\ \A t \in QuadTreeNames : st[t] = trees[t] \ KeysOfQuads(t, QuadsOfGraph(g))
            /\ \A q \in Quads \ QuadsOfGraph(g) : contains(st, q) <=> q \in inserted
            /\ st.id2str = trees.id2str

\* C12 witness: clear_graph has completed on a named graph that held a quad; the
\* graph is still registered and a default-graph quad is still stored.
C12_Witness ==
    /\ thr[1].pc = "idle" /\ DOMAIN trees.id2str = StrHashes
    /\ last.op = "clear_graph" /\ ~is_default_graph(last.graph_name)
    /\ contains_named_graph(trees, last.graph_name)
    /\ \A q \in inserted : q.graph_name # last.graph_name
    /\ \E q \in inserted : is_default_graph(q.graph_name)
    /\ Collect(trees, quads_for_pattern(None, None, None, last.graph_name)) = <<>>

\* What a cleared store answers: nothing is stored in it.
AnswersEmpty(st) ==
    /\ \A t \in QuadTreeNames : st[t] = {}
    /\ st.graphs = {} /\ DOMAIN st.id2str = {}
    /\ len(st) = 0 /\ is_empty(st)
    /\ \A s \in OptTerms, p \in OptTerms, o \in OptTerms, g \in OptGraphNames :
           Collect(st, quads_for_pattern(s, p, o, g)) = <<>>
    /\ named_graphs(st) = <<>>
    /\ \A q \in Quads : ~contains(st, q)
    /\ \A h \in StrHashes : get_str(st, h) = <<>> /\ ~contains_str(st, h)

\* C13: after clear() the nine quad keyspaces, the registry and the interner
\* are empty: len() = 0, is_empty() holds, every pattern scan and
\* named_graphs() yield nothing and get_str returns None for every hash. Stated
\* of clear on every store reached, and of the store clear leaves when it has
\* truncated the trees one after the other.
C13_ClearEmpties ==
    /\ thr[1].pc = "idle" => AnswersEmpty(clear(trees))
    /\ (thr[1].pc = "idle" /\ last.op = "clear") => AnswersEmpty(trees)

\* C13 witness: a store that holds a default-graph quad, a named-graph quad, a
\* registered graph without quads and both strings, and that clear empties.
C13_Witness ==
    /\ thr[1].pc = "idle"
    /\ \E q \in inserted : is_default_graph(q.graph_name) /\ contains(trees, q)
    /\ \E q \in inserted : ~is_default_graph(q.graph_name) /\ contains(trees, q)
    /\ Cardinality(trees.graphs) = 2
    /\ DOMAIN trees.id2str = StrHashes
    /\ ~AnswersEmpty(trees) /\ AnswersEmpty(clear(trees))

\* C14 as stated (violated by clear): interned strings are append-only; once
\* insert_str(h, v) has completed, so that the interner holds v under h,
\* get_str(h) returns v and contains_str(h) returns true after every later
\* step of the store, whatever the operation.
C14_InternerAppendOnly ==
    [][\A h \in DOMAIN trees.id2str :
           get_str(trees', h) = get_str(trees, h) /\ contains_str(trees', h)]_vars

RECURSIVE KeyHashesFrom(_, _)
\* The string hashes inside the terms of a key, read from position `at` on.
KeyHashesFrom(bytes, at) ==
    IF at > Len(bytes) THEN {}
    ELSE LET d == decode_term_at(bytes, at)
         IN  TermHashes(d.term) \cup KeyHashesFrom(bytes, d.next)

\* The string hashes inside the keys of the nine quad keyspaces and of the
\* registry.
IndexedHashes(st) ==
    UNION {KeyHashesFrom(k, 1) : k \in UNION {st[t] : t \in QuadTreeNames \cup {"graphs"}}}

C16_TransactionResult ==
    /\ last.op = "transaction" => last.err.kind \in {"None", "Abort", "Storage"}
    /\ tx[1].state \in {"committed", "aborted", "failed"} => last.op = "transaction"
    /\ tx[1].state = "committed"
          => /\ last.err = NoError
             /\ trees = TxView(tx[1].pre, tx[1].writes)
             /\ inserted = tx[1].data
             /\ last.ret = get_str(trees, 1)
    /\ tx[1].state \in {"aborted", "failed"} => last.err # NoError
    /\ tx[1].err.kind = "Conflict" => tx[1].state \in {"open", "committed"}
    /\ tx[1].state = "open" => trees = tx[1].pre /\ inserted = {q \in Quads : contains(trees, q)}

\* C16 witness: a transaction has committed after a conflict made sled run its
\* closure again; the second execution inserted a quad and a string, and the
\* value returned is the string it read.
C16_Witness ==
    /\ tx[1].state = "committed" /\ tx[1].err.kind = "Conflict"
    /\ last.op = "transaction" /\ last.err = NoError
    /\ last.ret = <<TxStrings[1]>>
    /\ tx[1].data # {} /\ tx[1].pre = EmptyStorage

\* C17: when a call on a transactional tree returns an I/O error inside a
\* transaction, transaction returns TransactionError::Storage with that error,
\* and the eleven keyspaces are what they were before the call: none of the
\* writes of the closure is applied.
C17_StorageErrorRollsBack ==
    /\ tx[1].err.kind = "Storage"
          => /\ tx[1].state = "failed"
             /\ last.op = "transaction"
             /\ last.err = [kind |-> "Storage", value |-> tx[1].err.value]
             /\ tx[1].err.value \in IoErrors
    /\ tx[1].state = "failed"
          => /\ tx[1].err.kind = "Storage"
             /\ trees = tx[1].pre
             /\ inserted = {q \in Quads : contains(trees, q)}
             /\ \A w \in tx[1].writes.put : w.key \in trees[w.tree] <=> w.key \in tx[1].pre[w.tree]
             /\ \A w \in tx[1].writes.del : w.key \in trees[w.tree] <=> w.key \in tx[1].pre[w.tree]
             /\ \A h \in DOMAIN tx[1].writes.str : get_str(trees, h) = get_str(tx[1].pre, h)

\* C17 witness: a transaction has failed with an I/O error after its closure
\* had removed a stored quad and inserted another quad and a string.
C17_Witness ==
    /\ tx[1].state = "failed" /\ last.err.kind = "Storage"
    /\ \E w \in tx[1].writes.del : w.key \in trees[w.tree]
    /\ \E w \in tx[1].writes.put : w.key \notin trees[w.tree]
    /\ DOMAIN tx[1].writes.str # {} /\ get_str(trees, 1) = <<>>

\* The store a transaction in progress reads.
TxRead(s) == TxView(s.store, s.writes)

\* C18: insert, remove, insert_named_graph and insert_str behave on a
\* transactional handle as on the storage handle. From the store a transaction
\* reads, every call returns on the transactional handle what it returns on
\* the storage handle, and the transaction then reads the store the storage
\* handle is left with; the transaction starts reading the store as it is and
\* a commit makes the store what the transaction read. So a sequence of calls
\* in one committing transaction returns the same values and leaves the same
\* eleven keyspaces as the same calls made one after the other on the storage
\* handle from the same start state.
C18_HandlesAgree ==
    /\ tx[1].state = "open" =>
          LET s == TxState(trees, tx[1].writes)
              v == TxRead(s)
          IN  /\ tx[1].writes = NoWrites => v = trees
              /\ \A q \in StepQuads :
                    /\ tx_insert(s, q).ret = insert(v, q).ret
                    /\ TxRead(tx_insert(s, q).tx) = insert(v, q).store
                    /\ tx_remove(s, q).ret = remove(v, q).ret
                    /\ TxRead(tx_remove(s, q).tx) = remove(v, q).store
              /\ \A g \in NamedGraphs :
                    /\ tx_insert_named_graph(s, g).ret = insert_named_graph(v, g).ret
                    /\ TxRead(tx_insert_named_graph(s, g).tx) = insert_named_graph(v, g).store
              /\ \A h \in StrHashes :
                    /\ tx_insert_str(s, h, Strings[h]).ret = insert_str(v, h, Strings[h]).ret
                    /\ TxRead(tx_insert_str(s, h, Strings[h]).tx) = insert_str(v, h, Strings[h]).store
                    /\ tx_get_str(s, h) = get_str(v, h)
                    /\ tx_contains_str(s, h) = contains_str(v, h)
    /\ tx[1].state = "committed" => trees = TxView(tx[1].pre, tx[1].writes)

\* C18 witness: a transaction in progress that has inserted and removed keys
\* and a string; an insert of a new quad into a named graph returns new on both
\* handles, and a remove of a stored quad returns removed on both.
C18_Witness ==
    /\ tx[1].state = "open"
    /\ tx[1].writes.put # {} /\ tx[1].writes.del # {} /\ DOMAIN tx[1].writes.str # {}
    /\ tx[1].pre # EmptyStorage
    /\ \E q \in TxQuads :
          /\ ~is_default_graph(q.graph_name)
          /\ tx_insert(TxState(trees, tx[1].writes), q).ret
          /\ insert(TxView(trees, tx[1].writes), q).ret
    /\ \E q \in TxQuads :
          /\ tx_remove(TxState(trees, tx[1].writes), q).ret
          /\ remove(TxView(trees, tx[1].writes), q).ret

(***************************************************************************)
(* Opening a database: the trees and the default keyspace are what an      *)
(* engine left on disk; Storage::open runs do_open on them.                *)
(***************************************************************************)
\* The versions found stored: the one before the registry, the latest, and the
\* one after it.
StoredVersions == {0, LATEST_STORAGE_VERSION, LATEST_STORAGE_VERSION + 1}

\* The quads of the databases: one in each graph.
OpenQuads == TxQuads

\* The graphs of the quads that are not the default graph.
NamedGraphsOf(quads_in) == {q.graph_name : q \in {x \in quads_in : ~is_default_graph(x.graph_name)}}

\* The trees that hold the quads and the registry entries given.
StoreOf(quads_in, graph_names) ==
    [id2str |-> EmptyId2Str,
     spog |-> KeysOfQuads("spog", quads_in), posg |-> KeysOfQuads("posg", quads_in),
     ospg |-> KeysOfQuads("ospg", quads_in), gspo |-> KeysOfQuads("gspo", quads_in),
     gpos |-> KeysOfQuads("gpos", quads_in), gosp |-> KeysOfQuads("gosp", quads_in),
     dspo |-> KeysOfQuads("dspo", quads_in), dpos |-> KeysOfQuads("dpos", quads_in),
     dosp |-> KeysOfQuads("dosp", quads_in),
     graphs |-> {encode_term(g) : g \in graph_names}]

\* The databases found on disk: a fresh one (no oxversion, nothing stored); one
\* written by the engine of version 0, which kept no registry; one written by
\* an engine of a later version, whose registry holds the graph of every quad.
Databases ==
    {[quads |-> {}, trees |-> EmptyStorage, default |-> EmptyDefault]}
        \cup {[quads |-> Q, trees |-> StoreOf(Q, G), default |-> set_version(EmptyDefault, v)] :
                 <<Q, G, v>> \in
                     {x \in (SUBSET OpenQuads) \X (SUBSET NamedGraphs) \X StoredVersions :
                         /\ Cardinality(x[1]) <= MaxQuads
                         /\ x[3] = 0 => x[2] = {}
                         /\ x[3] # 0 => NamedGraphsOf(x[1]) \subseteq x[2]}}

\* A thread that holds no storage handle.
ClosedThread == [pc |-> "closed", op |-> "none", quad |-> NoQuad, next |-> 0]

InitOpen ==
    /\ \E db \in Databases :
          /\ trees = db.trees
          /\ default = db.default
          /\ inserted = db.quads
    /\ last = Call("none", None, TRUE)
    /\ thr = [t \in Threads |-> IF t = 1 THEN ClosedThread ELSE IdleThread]
    /\ tx = [t \in Threads |-> NoTx]

\* Storage::open: do_open on the database; the caller holds a handle when it
\* returns Ok.
Open ==
    LET r == do_open(trees, default)
    IN  /\ thr[1].pc = "closed"
        /\ trees' = r.store
        /\ default' = r.default
        /\ last' = IF r.err = "None" THEN Call("open", None, TRUE)
                   ELSE CallErr("open", [kind |-> "InvalidData", value |-> r.err])
        /\ thr' = [thr EXCEPT ![1] = IF r.err = "None" THEN IdleThread ELSE ClosedThread]
        /\ UNCHANGED <<inserted, tx>>

\* The handle is dropped.
Close ==
    /\ thr[1].pc = "idle"
    /\ thr' = [thr EXCEPT ![1] = ClosedThread]
    /\ UNCHANGED <<trees, inserted, last, tx, default>>

OpenInsert(quad) == thr[1].pc = "idle" /\ Insert(quad)

OpenRemove(quad) == thr[1].pc = "idle" /\ Remove(quad)

OpenRemoveNamedGraph(graph_name) == thr[1].pc = "idle" /\ RemoveNamedGraph(graph_name)

NextOpen ==
    \/ Open
    \/ Close
    \/ \E quad \in OpenQuads : OpenInsert(quad)
    \/ \E quad \in OpenQuads : OpenRemove(quad)
    \/ \E graph_name \in NamedGraphs : OpenRemoveNamedGraph(graph_name)

SpecOpen == InitOpen /\ [][NextOpen]_vars

\* The version stored in the default keyspace, -1 when there is none.
StoredVersion(dflt) ==
    IF "oxversion" \in DOMAIN dflt THEN from_be_bytes(dflt["oxversion"]) ELSE -1

\* C19: opening a store that has no oxversion key writes
\* LATEST_STORAGE_VERSION under oxversion, as eight big-endian bytes, and
\* succeeds; opening a store whose oxversion is LATEST_STORAGE_VERSION
\* succeeds and changes neither the version nor any keyspace. A handle is held
\* only on a store whose version is the latest.
C19_OpenVersion ==
    /\ thr[1].pc = "closed" =>
          LET r == do_open(trees, default)
          IN  /\ StoredVersion(default) = -1
                    => /\ r.err = "None"
                       /\ DOMAIN r.default = {"oxversion"}
                       /\ r.default["oxversion"] = to_be_bytes(LATEST_STORAGE_VERSION)
                       /\ Len(r.default["oxversion"]) = 8
                       /\ StoredVersion(r.default) = LATEST_STORAGE_VERSION
                       /\ r.store = trees
              /\ StoredVersion(default) = LATEST_STORAGE_VERSION
                    => /\ r.err = "None"
                       /\ r.default = default
                       /\ r.store = trees
    /\ thr[1].pc = "idle" => StoredVersion(default) = LATEST_STORAGE_VERSION

\* C19 witness: a store that was opened when it had no oxversion, written to
\* and closed; it holds the latest version and quads, and opening it again
\* changes nothing.
C19_Witness ==
    /\ thr[1].pc = "closed" /\ last.op = "insert" /\ last.ret
    /\ StoredVersion(default) = LATEST_STORAGE_VERSION
    /\ Cardinality(inserted) = MaxQuads /\ trees.graphs # {}
    /\ do_open(trees, default).err = "None"
    /\ do_open(EmptyStorage, EmptyDefault).default = default

\* C20: opening a store whose stored version is 0 migrates it: the graph of
\* every stored quad with a non-default graph is inserted into the registry, no
\* quad is added or removed and the stored version is 1 afterwards. For every
\* other stored version, and for none, the registry and the quads are left as
\* they are and the stored version is not rewritten.
C20_Migration ==
    thr[1].pc = "closed" =>
        LET r == do_open(trees, default)
        IN  IF StoredVersion(default) = 0
            THEN /\ r.store.graphs
                       = trees.graphs \cup {encode_term(g) : g \in NamedGraphsOf(inserted)}
                 /\ \A q \in inserted : ~is_default_graph(q.graph_name)
                       => contains_named_graph(r.store, q.graph_name)
                 /\ \A t \in QuadTreeNames : r.store[t] = trees[t]
                 /\ r.store.id2str = trees.id2str
                 /\ \A q \in Quads : contains(r.store, q) <=> q \in inserted
                 /\ Collect(r.store, quads) = Collect(trees, quads)
                 /\ StoredVersion(r.default) = 1
            ELSE /\ r.store = trees
                 /\ r.default = ensure_version(default).default
                 /\ StoredVersion(default) # -1 => r.default = default

\* C20 witness: a store of version 0 that holds a quad in each of the two named
\* graphs and no registry entry; the migration registers both graphs.
C20_Witness ==
    /\ thr[1].pc = "closed" /\ StoredVersion(default) = 0
    /\ trees.graphs = {} /\ NamedGraphsOf(inserted) = NamedGraphs
    /\ Range(named_graphs(do_open(trees, default).store)) = NamedGraphs
    /\ StoredVersion(do_open(trees, default).default) = 1

\* The values of LATEST_STORAGE_VERSION of the engines that open the
\* databases: the build modelled and the two after it.
EngineVersions ==
    {LATEST_STORAGE_VERSION, LATEST_STORAGE_VERSION + 1, LATEST_STORAGE_VERSION + 2}

\* C21: opening a store whose stored version v satisfies
\* 0 < v < LATEST_STORAGE_VERSION fails with the invalid-data error of the
\* outdated encoding and returns no handle (do_open returns Err, never
\* Ok(this)), whatever the store holds and for every engine whose latest
\* version is above v.
C21_OutdatedFails ==
    thr[1].pc = "closed" =>
        \A latest \in EngineVersions :
            (0 < StoredVersion(default) /\ StoredVersion(default) < latest)
                => LET r == do_open_latest(trees, default, latest)
                   IN  r.err = "outdated" /\ r.err # "None"

\* C21 witness: a closed database at version 1 that holds quads; an engine
\* whose latest version is 2 refuses it as outdated, the engine of version 1
\* opens it.
C21_Witness ==
    /\ thr[1].pc = "closed" /\ StoredVersion(default) = 1
    /\ Cardinality(inserted) = MaxQuads
    /\ do_open_latest(trees, default, 2).err = "outdated"
    /\ do_open_latest(trees, default, 1).err = "None"

\* C22: an open of a store whose stored version is greater than
\* LATEST_STORAGE_VERSION fails with the too-recent error and leaves the
\* oxversion value, the nine quad trees, the registry and the interner as they
\* were; the caller holds no handle afterwards.
C22_TooRecentFails ==
    [][(thr[1].pc = "closed" /\ StoredVersion(default) > LATEST_STORAGE_VERSION)
          => /\ last' = CallErr("open", [kind |-> "InvalidData", value |-> "too recent"])
             /\ default' = default
             /\ \A t \in TreeNames : trees'[t] = trees[t]
             /\ thr'[1].pc = "closed"
             /\ \A latest \in EngineVersions :
                   StoredVersion(default) > latest
                       => LET r == do_open_latest(trees, default, latest)
                          IN  r.err = "too recent" /\ r.store = trees /\ r.default = default]_vars

\* C22 witness: the open of a store of version LATEST_STORAGE_VERSION + 1 that
\* holds quads and registry entries has failed.
C22_Witness ==
    /\ last = CallErr("open", [kind |-> "InvalidData", value |-> "too recent"])
    /\ thr[1].pc = "closed"
    /\ StoredVersion(default) = LATEST_STORAGE_VERSION + 1
    /\ Cardinality(inserted) = MaxQuads /\ trees.graphs # {}

\* C23: after any sequence of completed calls len() is the number of distinct
\* quads for which contains is true, the default-graph ones and the
\* named-graph ones each counted once (between the calls: the number of quads
\* inserted and not removed), and is_empty() is true exactly when len() is 0.
C23_LenCountsContained ==
    /\ len(trees) = Cardinality({q \in Quads : contains(trees, q)})
    /\ thr[1].pc = "idle" =>
          len(trees) = Cardinality({q \in inserted : is_default_graph(q.graph_name)})
                           + Cardinality({q \in inserted : ~is_default_graph(q.graph_name)})
    /\ is_empty(trees) <=> len(trees) = 0

\* C23 witness: after a completed insert the store holds a default-graph quad
\* and a named-graph quad with the same subject, predicate and object; len
\* counts both.
C23_Witness ==
    /\ last.op = "insert" /\ last.ret
    /\ \E q1, q2 \in inserted :
          /\ is_default_graph(q1.graph_name) /\ ~is_default_graph(q2.graph_name)
          /\ q1.subject = q2.subject /\ q1.predicate = q2.predicate /\ q1.object = q2.object
          /\ contains(trees, q1) /\ contains(trees, q2)
    /\ len(trees) = 2 /\ ~is_empty(trees)

\* The trees of the default-graph side and of the named-graph side.
DefaultTreeNames == {"dspo", "dpos", "dosp"}

NamedTreeNames == QuadTreeNames \ DefaultTreeNames

RECURSIVE DrainsFirst(_, _)
\* In the iteration of the chain on the store st, every call of next that
\* advances the second iterator is one in which the first returned None.
DrainsFirst(st, chain) ==
    LET r == ChainedDecodingQuadIterator_next(st, chain)
    IN  /\ r.it.second # chain.second
              => ~DecodingQuadIterator_next(st, chain.first).some
        /\ r.some => DrainsFirst(st, r.it)

\* C24: with g unbound quads_for_pattern chains a scan of a default-graph tree
\* with a scan of a named-graph tree and yields every matching default-graph
\* quad before any matching named-graph quad, the second scan being advanced
\* only by calls in which the first returned None; with g bound to the
\* default graph one default-graph tree is scanned and only default-graph quads
\* are yielded; with g bound to a named graph one named-graph tree is scanned
\* and only quads of that graph are yielded.
C24_DefaultBeforeNamed ==
    \A s \in OptTerms, p \in OptTerms, o \in OptTerms :
        /\ LET chain == quads_for_pattern(s, p, o, None)
               out == Collect(trees, chain)
           IN  /\ chain.first.iter.tree \in DefaultTreeNames
               /\ chain.second # <<>>
               /\ chain.second[1].iter.tree \in NamedTreeNames
               /\ \A i \in 1..Len(out), j \in 1..Len(out) :
                     (i < j /\ is_default_graph(out[j].graph_name))
                         => is_default_graph(out[i].graph_name)
               /\ DrainsFirst(trees, chain)
        /\ \A g \in GraphNames :
              LET chain == quads_for_pattern(s, p, o, g)
                  out == Collect(trees, chain)
              IN  /\ chain.second = <<>>
                  /\ chain.first.iter.tree \in
                        (IF is_default_graph(g) THEN DefaultTreeNames ELSE NamedTreeNames)
                  /\ \A i \in 1..Len(out) : out[i].graph_name = g

\* C24 witness: the store holds a default-graph quad and named-graph quads that
\* match one pattern; the scan with g unbound yields the default-graph quad
\* first and a named-graph quad last, the scans with g bound yield one side.
C24_Witness ==
    \E o \in Terms :
        LET out == Collect(trees, quads_for_pattern(NamedNode(1), None, o, None))
        IN  /\ Len(out) = MaxQuads
            /\ is_default_graph(out[1].graph_name)
            /\ ~is_default_graph(out[Len(out)].graph_name)
            /\ Len(Collect(trees, quads_for_pattern(NamedNode(1), None, o, DefaultGraph))) = 1
            /\ Len(Collect(trees, quads_for_pattern(NamedNode(1), None, o, out[Len(out)].graph_name))) = 1

\* C25: insert_named_graph(g) changes the registry only. On the storage handle
\* and on the transactional handle it returns true exactly when g was not in
\* the registry, g is in the registry afterwards, the other registry entries,
\* the nine quad trees and the interner are as before, and a second call
\* returns false and changes nothing; a transactional call writes no tree
\* before the commit, and no step of a transaction changes the stored version.
C25_InsertNamedGraphRegistryOnly ==
    /\ [](\A g \in NamedGraphs :
            /\ LET r == insert_named_graph(trees, g)
                   r2 == insert_named_graph(r.store, g)
               IN  /\ r.ret <=> ~contains_named_graph(trees, g)
                   /\ contains_named_graph(r.store, g)
                   /\ r.store.graphs \ {encode_term(g)} = trees.graphs \ {encode_term(g)}
                   /\ \A t \in TreeNames \ {"graphs"} : r.store[t] = trees[t]
                   /\ ~r2.ret /\ r2.store = r.store
            /\ tx[1].state = "open" =>
                  LET s == TxState(trees, tx[1].writes)
                      before == TxView(s.store, s.writes)
                      r == tx_insert_named_graph(s, g)
                      after == TxView(r.tx.store, r.tx.writes)
                      r2 == tx_insert_named_graph(r.tx, g)
                  IN  /\ r.ret <=> ~contains_named_graph(before, g)
                      /\ contains_named_graph(after, g)
                      /\ after.graphs \ {encode_term(g)} = before.graphs \ {encode_term(g)}
                      /\ \A t \in TreeNames \ {"graphs"} : after[t] = before[t]
                      /\ r.tx.store = trees
                      /\ ~r2.ret /\ r2.tx = r.tx)
    /\ [][default' = default
            /\ (tx[1].state = "open" /\ tx'[1].state = "open") => trees' = trees]_vars

\* C25 witness: a transaction on a store that holds quads and a registry entry
\* has called insert_named_graph for a graph the store does not register: the
\* transactional handle now answers false for it, the storage handle would
\* answer true, and both answer false for the graph the store registers.
C25_Witness ==
    /\ tx[1].state = "open" /\ trees.gspo # {} /\ trees.graphs # {}
    /\ StoredVersion(default) = LATEST_STORAGE_VERSION
    /\ \E g1, g2 \in NamedGraphs :
          /\ encode_term(g1) \notin trees.graphs
          /\ Write("graphs", encode_term(g1)) \in tx[1].writes.put
          /\ ~tx_insert_named_graph(TxState(trees, tx[1].writes), g1).ret
          /\ insert_named_graph(trees, g1).ret
          /\ encode_term(g2) \in trees.graphs
          /\ ~tx_insert_named_graph(TxState(trees, tx[1].writes), g2).ret
          /\ ~insert_named_graph(trees, g2).ret

\* The strings insert_str is called with: the empty string, the two strings of
\* the terms, and a string with a char of four bytes and the last char before
\* the surrogates.
StrValues == {<<>>, <<115, 233>>, <<111, 8364>>, <<128512, 55295>>}

\* C26: on the storage handle and on the transactional handle, insert_str(h, v)
\* returns true exactly when h was not in the interner before the call, and
\* get_str(h) returns v after it, whether h was new or not; contains_str(h) is
\* true exactly when get_str(h) returns a string.
C26_InternerRoundTrip ==
    \A h \in StrHashes :
        /\ contains_str(trees, h) <=> (Len(get_str(trees, h)) = 1)
        /\ \A v \in StrValues :
              LET r == insert_str(trees, h, v)
              IN  /\ r.ret <=> ~contains_str(trees, h)
                  /\ get_str(r.store, h) = <<v>>
                  /\ contains_str(r.store, h)
        /\ tx[1].state = "open" =>
              LET s == TxState(trees, tx[1].writes)
              IN  /\ tx_contains_str(s, h) <=> (Len(tx_get_str(s, h)) = 1)
                  /\ \A v \in StrValues :
                        LET r == tx_insert_str(s, h, v)
                        IN  /\ r.ret <=> ~tx_contains_str(s, h)
                            /\ tx_get_str(r.tx, h) = <<v>>
                            /\ tx_contains_str(r.tx, h)
                            /\ get_str(r.tx.store, h) = get_str(trees, h)

\* C26 witness: a transaction on a store that interns nothing has called
\* insert_str: its handle reads the string back and answers false to a second
\* insert_str, which replaces the string; the storage handle does not hold the
\* hash yet and answers true.
C26_Witness ==
    /\ tx[1].state = "open" /\ DOMAIN trees.id2str = {}
    /\ tx[1].writes.str = [h \in {1} |-> as_bytes(TxStrings[1])]
    /\ tx_get_str(TxState(trees, tx[1].writes), 1) = <<TxStrings[1]>>
    /\ ~tx_insert_str(TxState(trees, tx[1].writes), 1, <<128512, 55295>>).ret
    /\ tx_get_str(tx_insert_str(TxState(trees, tx[1].writes), 1, <<128512, 55295>>).tx, 1)
           = << <<128512, 55295>> >>
    /\ insert_str(trees, 1, <<>>).ret /\ get_str(insert_str(trees, 1, <<>>).store, 1) = << <<>> >>

(***************************************************************************)
(* Calls of several threads on one storage handle, with no transaction:    *)
(* sled makes each write of a key (and each Tree::clear) atomic and the    *)
(* storage takes no lock, so that the writes of the calls interleave.      *)
(***************************************************************************)
\* The quad the concurrent calls are about: one quad of a named graph.
ConcQuads == {q \in TxQuads : q.graph_name = NamedNode(1)}

\* The graph remove_named_graph is called with.
ConcGraphs == {NamedNode(1)}

\* A thread in remove_named_graph(g): `quad` is the quad its scan of GSPO
\* yielded last, with no subject before the first.
Scanning(quad) ==
    [pc |-> "scanning", op |-> "remove_named_graph", quad |-> quad, next |-> 0]

\* Storage::remove_named_graph is called: the scan quads_for_graph(g) is made.
RemoveNamedGraphBegin(t, graph_name) ==
    /\ thr[t].pc = "idle"
    /\ thr' = [thr EXCEPT ![t] = Scanning(EncodedQuad(None, None, None, graph_name))]
    /\ UNCHANGED <<trees, inserted, last, tx, default>>

\* One turn of the loop of Storage::remove_named_graph: next() on the scan,
\* which reads the tree as it is now, and remove of the quad it yields; when it
\* yields none, the registry key is removed and the call returns.
RemoveNamedGraphNext(t) ==
    LET graph_name == thr[t].quad.graph_name
        scan == quads_for_graph(graph_name)
        chain == IF thr[t].quad.subject = None THEN scan
                 ELSE [scan EXCEPT !.first.iter.last = SomeKey(write_gspo_quad(thr[t].quad))]
        r == ChainedDecodingQuadIterator_next(trees, chain)
    IN  /\ thr[t].pc = "scanning"
        /\ UNCHANGED <<tx, default>>
        /\ IF r.some
           THEN /\ trees' = remove(trees, r.item).store
                /\ thr' = [thr EXCEPT ![t] = Scanning(r.item)]
                /\ UNCHANGED <<inserted, last>>
           ELSE /\ trees' = [trees EXCEPT !.graphs = @ \ {encode_term(graph_name)}]
                /\ thr' = [thr EXCEPT ![t] = IdleThread]
                /\ inserted' = {q \in inserted : q.graph_name # graph_name}
                /\ last' = Call("remove_named_graph", graph_name,
                                encode_term(graph_name) \in trees.graphs)

\* Two threads call insert and remove on the same quad; every write is a step.
NextConcWrites ==
    \E t \in Threads :
        \/ \E quad \in ConcQuads : InsertPrimary(t, quad)
        \/ InsertSibling(t)
        \/ \E quad \in ConcQuads : RemovePrimary(t, quad)
        \/ RemoveSibling(t)

SpecConcWrites == Init /\ [][NextConcWrites]_vars

\* Thread 1 calls insert with a quad of the graph, write by write; thread 2
\* calls remove_named_graph on the graph, and clear.
NextConcGraph ==
    \/ \E quad \in ConcQuads : InsertPrimary(1, quad)
    \/ InsertSibling(1)
    \/ \E graph_name \in ConcGraphs : RemoveNamedGraphBegin(2, graph_name)
    \/ RemoveNamedGraphNext(2)
    \/ ClearTree(2)

SpecConcGraph == Init /\ [][NextConcGraph]_vars

\* Every call has returned.
Quiescent == \A t \in Threads : thr[t].pc = "idle"

\* C27: for any interleaving, write by write, of insert(q) and remove(q) calls
\* of different threads on the same quad, once all calls have returned q is in
\* every one of its applicable keyspaces or in none of them.
C27_QuiescentIndexConsistency ==
    Quiescent => \A q \in ConcQuads : InAllKeyspaces(trees, q) \/ InNoKeyspace(trees, q)

\* C28: for any interleaving of an insert of a quad in the named graph g with
\* a remove_named_graph(g) or a clear() of another thread, once the calls have
\* returned either no quad of g is stored or g is in the registry.
C28_QuiescentRegistry ==
    Quiescent =>
        \A q \in ConcQuads :
            (~is_default_graph(q.graph_name) /\ contains(trees, q))
                => contains_named_graph(trees, q.graph_name)

\* The key of the primary permutation of a quad: DSPO in the default graph,
\* SPOG in a named graph.
PrimaryKey(quad) ==
    IF is_default_graph(quad.graph_name)
    THEN Write("dspo", write_spo_quad(quad))
    ELSE Write("spog", write_spog_quad(quad))

\* C29: insert writes the primary permutation first and the redundant ones
\* (two in the default graph, five in a named graph, then the registry key) if
\* and only if the primary write found the key absent. With one thread
\* writing: in every state of an insert(q), and between the calls, a key of a
\* quad is present only if the quad's primary key is; the sibling keys of q
\* present are those of the writes made so far, in the order of the code; the
\* step that finds the primary key absent writes that key only; an insert that
\* returns already_present leaves every tree as it was.
C29_PrimaryFirst ==
    /\ [](thr[1].op \in {"insert", "none"} =>
            /\ \A q \in StepQuads :
                  (\E w \in ApplicableKeys(q) : Tree_contains_key(trees, w))
                      => Tree_contains_key(trees, PrimaryKey(q))
            /\ thr[1].op = "insert" =>
                  LET q == thr[1].quad
                      ws == insert_siblings(q)
                  IN  /\ Len(ws) = IF is_default_graph(q.graph_name) THEN 2 ELSE 6
                      /\ {ws[i] : i \in 1..Len(ws)} \cup {PrimaryKey(q)}
                             = ApplicableKeys(q) \cup
                                  (IF is_default_graph(q.graph_name) THEN {}
                                   ELSE {Write("graphs", encode_term(q.graph_name))})
                      /\ thr[1].next \in 1..Len(ws)
                      /\ Tree_contains_key(trees, PrimaryKey(q))
                      /\ \A i \in 1..Len(ws) :
                            ws[i].tree # "graphs"
                                => (Tree_contains_key(trees, ws[i]) <=> i < thr[1].next))
    /\ [][/\ (thr[1].pc = "idle" /\ thr'[1].op = "insert")
                => /\ ~Tree_contains_key(trees, PrimaryKey(thr'[1].quad))
                   /\ trees' = Tree_insert(trees, PrimaryKey(thr'[1].quad))
          /\ (thr[1].pc = "idle" /\ thr'[1].pc = "idle" /\ last'.op = "insert")
                => (~last'.ret /\ trees' = trees)]_vars

\* C29 witness: the last call that returned was an insert that found its quad
\* present; now a thread is in the insert of a quad of a named graph, has
\* written the primary key and three of the siblings, and three are to come.
C29_Witness ==
    /\ thr[1].op = "insert" /\ thr[1].next = 4
    /\ ~is_default_graph(thr[1].quad.graph_name)
    /\ last.op = "insert" /\ ~last.ret
    /\ Tree_contains_key(trees, Write("gspo", write_gspo_quad(thr[1].quad)))
    /\ ~Tree_contains_key(trees, Write("gpos", write_gpos_quad(thr[1].quad)))
    /\ inserted # {}

\* C30: when sled runs the closure of a transaction again because of
\* conflicts, the state committed holds the writes of one execution, the one
\* that commits, over the trees of the start of the call; the writes of the
\* executions that conflicted are dropped: a key or a string such an execution
\* wrote, and the committing one did not, is in the trees after the commit as
\* it was before the call.
C30_OneExecutionCommitted ==
    /\ tx[1].state = "open" => trees = tx[1].pre
    /\ tx[1].state = "committed" =>
          /\ trees = TxView(tx[1].pre, tx[1].writes)
          /\ \A w \in (tx[1].dropped.put \cup tx[1].dropped.del)
                          \ (tx[1].writes.put \cup tx[1].writes.del) :
                w.key \in trees[w.tree] <=> w.key \in tx[1].pre[w.tree]
          /\ \A h \in DOMAIN tx[1].dropped.str \ DOMAIN tx[1].writes.str :
                get_str(trees, h) = get_str(tx[1].pre, h)
          /\ \A q \in Quads : contains(trees, q) <=> q \in tx[1].data

\* C30 witness: a transaction has committed whose closure was run again after
\* a conflict; the execution that conflicted had inserted a quad and a string,
\* the one that committed inserted another quad and no string; the trees hold
\* the second quad only and no string.
C30_Witness ==
    /\ tx[1].state = "committed" /\ tx[1].err.kind = "Conflict"
    /\ tx[1].pre = EmptyStorage
    /\ \E q1, q2 \in TxErrQuads :
          /\ q1 # q2
          /\ PrimaryKey(q1) \in tx[1].dropped.put /\ PrimaryKey(q1) \notin tx[1].writes.put
          /\ PrimaryKey(q2) \in tx[1].writes.put /\ PrimaryKey(q2) \notin tx[1].dropped.put
          /\ ~contains(trees, q1) /\ contains(trees, q2)
          /\ len(trees) = 1
    /\ DOMAIN tx[1].dropped.str # {} /\ DOMAIN trees.id2str = {}

(***************************************************************************)
(* The errors of a closure on their way to sled.  A call on a              *)
(* transactional tree fails with sled's unabortable error, which the `?`   *)
(* of the handler converts; a closure that loads a file gets the error     *)
(* inside a StoreOrParseError, or a parse error, and converts it with `?`; *)
(* the `?` of the closure converts to ConflictableTransactionError and the *)
(* `?` of Storage::transaction converts for sled.                          *)
(***************************************************************************)

\* StoreOrParseError::Store(e) and StoreOrParseError::Parse(e).
StoreOrParseError_Store(e) == [kind |-> "Store", value |-> e]

StoreOrParseError_Parse(e) == [kind |-> "Parse", value |-> e]

\* From<StoreOrParseError<UnabortableTransactionError>> for UnabortableTransactionError
unabortable_from_store_or_parse(e) ==
    CASE e.kind = "Store" -> e.value
      [] e.kind = "Parse" -> [kind |-> "Storage", value |-> e.value]

\* The I/O errors a parser returns.
ParseErrors == {"syntax"}

\* The conversions of the error e of sled up to the error sled gets back;
\* `loader` tells whether the closure got it inside a StoreOrParseError.
ToSled(e, loader) ==
    LET handler_err == from_sled_unabortable(e)
        unabortable == IF loader
                       THEN unabortable_from_store_or_parse(StoreOrParseError_Store(handler_err))
                       ELSE handler_err
    IN  into_sled_conflictable(conflictable_from_unabortable(unabortable))

\* The closure returns with `?` an error that is now the error sled_err of
\* sled: on a conflict sled drops the writes and runs the closure again, on a
\* storage error it drops the writes and returns the error, which is converted
\* for the caller.  `origin` is the error as it was raised (history), kept in
\* err with the error sled got.
TxClosureError(t, origin, sled_err) ==
    /\ tx[t].state = "open"
    /\ IF sled_err.kind = "Conflict"
       THEN /\ tx' = [tx EXCEPT ![t].writes = NoWrites, ![t].data = inserted,
                                ![t].err = [kind |-> origin.kind, value |-> origin.value,
                                            sled |-> sled_err],
                                ![t].dropped = Dropped(@, tx[t].writes)]
            /\ UNCHANGED last
       ELSE /\ tx' = [tx EXCEPT ![t].state = "failed",
                                ![t].err = [kind |-> origin.kind, value |-> origin.value,
                                            sled |-> sled_err]]
            /\ last' = CallErr("transaction", from_sled_transaction_error(sled_err))
    /\ UNCHANGED <<trees, inserted, thr, default>>

\* A call of the closure on a transactional tree returns the error e.
TxHandlerError(t, e) == TxClosureError(t, e, ToSled(e, FALSE))

\* A loader the closure calls returns StoreOrParseError::Store with the error
\* e of a call on a transactional tree.
TxLoaderStoreError(t, e) == TxClosureError(t, e, ToSled(e, TRUE))

\* A loader the closure calls returns StoreOrParseError::Parse(e).
TxLoaderParseError(t, e) ==
    TxClosureError(t, StoreOrParseError_Parse(e),
                   into_sled_conflictable(conflictable_from_unabortable(
                       unabortable_from_store_or_parse(StoreOrParseError_Parse(e)))))

\* One thread runs transactions whose closures return every kind of error.
NextTxConv ==
    \/ TxBegin(1)
    \/ \E quad \in TxErrQuads : TxInsert(1, quad)
    \/ \E quad \in TxErrQuads : TxRemove(1, quad)
    \/ TxCommit(1)
    \/ \E e \in UserErrors : TxAbort(1, e)
    \/ \E e \in SubstrateErrors : TxHandlerError(1, e)
    \/ \E e \in SubstrateErrors : TxLoaderStoreError(1, e)
    \/ \E e \in ParseErrors : TxLoaderParseError(1, e)

SpecTxConv == Init /\ [][NextTxConv]_vars

\* C31: a conflict raised by a call of a transaction reaches sled unchanged:
\* the conversions from sled's unabortable error through
\* UnabortableTransactionError (directly or out of a StoreOrParseError) and
\* ConflictableTransactionError to sled's conflictable error map Conflict to
\* Conflict, Storage to Storage with the same error, and Abort to Abort with
\* the same error; so a conflict never ends the transaction with a storage
\* error or an abort, it leaves the transaction running.
C31_ConflictReachesSled ==
    /\ \A e \in SubstrateErrors : \A loader \in BOOLEAN : ToSled(e, loader) = e
    /\ \A e \in UserErrors :
          into_sled_conflictable(ConflictableAbort(e)) = [kind |-> "Abort", value |-> e]
    /\ tx[1].err.kind = "Conflict"
          => /\ tx[1].err.sled = [kind |-> "Conflict", value |-> "None"]
             /\ tx[1].state \in {"open", "committed"}
    /\ tx[1].err.kind = "Storage"
          => /\ tx[1].err.sled = [kind |-> "Storage", value |-> tx[1].err.value]
             /\ tx[1].state = "failed" /\ last.err = tx[1].err.sled
    /\ tx[1].err.kind = "Parse"
          => /\ tx[1].err.sled = [kind |-> "Storage", value |-> tx[1].err.value]
             /\ tx[1].state = "failed" /\ last.err = tx[1].err.sled
    /\ tx[1].state = "failed" => tx[1].err.kind \in {"Storage", "Parse"}
    /\ tx[1].state = "aborted"
          => tx[1].err.kind = "Abort" /\ last.err = tx[1].err

\* C31 witness: a conflict came out of a call of the closure, which had
\* inserted a quad; sled got it as a conflict, dropped the write, and the
\* transaction is still running: nothing has been returned to the caller.
C31_Witness ==
    /\ tx[1].state = "open" /\ tx[1].err.kind = "Conflict"
    /\ tx[1].err.sled.kind = "Conflict"
    /\ tx[1].dropped.put # {} /\ tx[1].writes = NoWrites
    /\ last.op = "new"

(***************************************************************************)
(* Two transactions at a time.  Each thread calls Storage::transaction     *)
(* once with the closure |t| t.insert(quad).  sled runs an execution of    *)
(* the closure on the trees and the execution's own writes, commits it     *)
(* only if no other transaction has committed since the execution began,   *)
(* and otherwise, or whenever it finds a conflict, drops the writes and    *)
(* runs the closure again.                                                 *)
(***************************************************************************)

\* No call of the closure has returned yet in this execution.
NoRet == "none"

\* What the closure got from insert: Ok(true) is new, Ok(false) already present.
InsertRet(is_new) == IF is_new THEN "new" ELSE "already_present"

\* Storage::transaction is called with the closure that inserts quad.
TxConcBegin(t, quad) ==
    /\ tx[t].state = "none"
    /\ tx' = [tx EXCEPT ![t] = [state |-> "open", writes |-> NoWrites, pre |-> trees,
                                data |-> inserted, err |-> NoError, dropped |-> NoWrites,
                                quad |-> quad, ret |-> NoRet]]
    /\ UNCHANGED <<trees, inserted, last, thr, default>>

\* The closure calls insert on its StorageTransaction and gets Ok(is_new).
TxConcInsert(t) ==
    LET r == tx_insert(TxState(trees, tx[t].writes), tx[t].quad)
    IN  /\ tx[t].state = "open" /\ tx[t].ret = NoRet
        /\ trees' = r.tx.store
        /\ tx' = [tx EXCEPT ![t].writes = r.tx.writes, ![t].ret = InsertRet(r.ret),
                            ![t].data = @ \cup {tx[t].quad}]
        /\ UNCHANGED <<inserted, last, thr, default>>

\* Mutant of TxConcCommit: sled commits an execution although another
\* transaction has committed since it began.
TxConcCommit_without_validation(t) ==
    /\ tx[t].state = "open" /\ tx[t].ret # NoRet
    /\ trees' = TxView(trees, tx[t].writes)
    /\ inserted' = inserted \cup tx[t].data
    /\ tx' = [tx EXCEPT ![t].state = "committed"]
    /\ last' = Call("transaction", None, tx[t].ret)
    /\ UNCHANGED <<thr, default>>

\* The closure returns Ok(is_new) and no transaction has committed since the
\* execution began: sled commits its writes and transaction returns Ok(is_new).
TxConcCommit(t) ==
    /\ tx[t].state = "open" /\ tx[t].ret # NoRet
    /\ trees = tx[t].pre
    /\ trees' = TxView(trees, tx[t].writes)
    /\ inserted' = inserted \cup tx[t].data
    /\ tx' = [tx EXCEPT ![t].state = "committed"]
    /\ last' = Call("transaction", None, tx[t].ret)
    /\ UNCHANGED <<thr, default>>

\* sled finds a conflict, in a call of the closure or when the closure has
\* returned: it drops the writes of the execution and runs the closure again.
TxConcConflict(t) ==
    /\ tx[t].state = "open"
    /\ tx' = [tx EXCEPT ![t].writes = NoWrites, ![t].pre = trees, ![t].data = inserted,
                        ![t].err = [kind |-> "Conflict", value |-> "None"],
                        ![t].dropped = Dropped(@, tx[t].writes), ![t].ret = NoRet]
    /\ UNCHANGED <<trees, inserted, last, thr, default>>

NextTxConc ==
    \/ \E t \in Threads : \E quad \in TxQuads : TxConcBegin(t, quad)
    \/ \E t \in Threads : TxConcInsert(t)
    \/ \E t \in Threads : TxConcCommit(t)
    \/ \E t \in Threads : TxConcConflict(t)

SpecTxConc == Init /\ [][NextTxConc]_vars

\* C32: when two transactions that each insert the same quad q, not stored
\* before, run at the same time and both commit, one of the two committed
\* executions of the closures got new (true) from insert(q) and the other
\* already present (false), and q is stored once in each of its applicable
\* keyspaces: the trees are those one insert(q) leaves.  When the quads
\* differ both got new.  The execution that commits first is the one that
\* got new.
C32_OneInsertIsNew ==
    /\ tx[1].state = "committed" /\ tx[2].state = "committed"
          => IF tx[1].quad = tx[2].quad
             THEN /\ tx[1].ret # tx[2].ret
                  /\ {tx[1].ret, tx[2].ret} = {"new", "already_present"}
                  /\ InAllKeyspaces(trees, tx[1].quad)
                  /\ trees = insert(EmptyStorage, tx[1].quad).store
                  /\ len(trees) = 1
             ELSE /\ tx[1].ret = "new" /\ tx[2].ret = "new"
                  /\ len(trees) = 2
    /\ \A t \in Threads :
          tx[t].state = "committed"
             => /\ tx[t].ret = InsertRet(~contains(tx[t].pre, tx[t].quad))
                /\ InAllKeyspaces(trees, tx[t].quad)

\* C32 witness: both transactions inserted the same named-graph quad in
\* executions that ran at the same time, both have committed, the second
\* after a conflict; the first got new and the second already present.
C32_Witness ==
    /\ tx[1].state = "committed" /\ tx[2].state = "committed"
    /\ tx[1].quad = tx[2].quad /\ ~is_default_graph(tx[1].quad.graph_name)
    /\ tx[1].ret = "new" /\ tx[2].ret = "already_present"
    /\ tx[2].err.kind = "Conflict" /\ tx[2].dropped.put # {}
    /\ tx[1].pre = EmptyStorage /\ tx[2].pre # EmptyStorage
    /\ last.ret = "already_present"

(***************************************************************************)
(* Storage::insert and Storage::remove write by write, where a write may   *)
(* fail: the `?` after each call on a tree returns the error of sled to    *)
(* the caller at once, and the writes made before stay.                    *)
(***************************************************************************)

\* The quads the calls that may fail are made with: one of the default graph
\* and one of a named graph.
StepErrQuads ==
    {q \in StepQuads : q.object = NamedNode(1)
                           /\ q.graph_name \in {DefaultGraph, NamedNode(1)}}

\* The first write of Storage::insert or Storage::remove returns the error e:
\* nothing is written and the call returns Err(e).
PrimaryError(t, op, e) ==
    /\ thr[t].pc = "idle"
    /\ last' = CallErr(op, [kind |-> "Storage", value |-> e])
    /\ UNCHANGED <<trees, inserted, thr, tx, default>>

\* The write of the siblings that is due returns the error e: it is not made,
\* nor are those after it, and the call returns Err(e).
SiblingError(t, e) ==
    /\ thr[t].pc = "siblings"
    /\ thr' = [thr EXCEPT ![t] = IdleThread]
    /\ last' = CallErr(thr[t].op, [kind |-> "Storage", value |-> e])
    /\ UNCHANGED <<trees, inserted, tx, default>>

\* One thread calls insert and remove; every write is a step and may fail.
NextStepsErr ==
    \/ \E quad \in StepErrQuads : InsertPrimary(1, quad)
    \/ InsertSibling(1)
    \/ \E quad \in StepErrQuads : RemovePrimary(1, quad)
    \/ RemoveSibling(1)
    \/ \E op \in {"insert", "remove"} : \E e \in IoErrors : PrimaryError(1, op, e)
    \/ \E e \in IoErrors : SiblingError(1, e)

SpecStepsErr == Init /\ [][NextStepsErr]_vars

\* C33: when a non-transactional insert(q) or remove(q) has returned a storage
\* error raised by one of its writes, the index set is consistent for q:
\* between the calls q is in all of its applicable keyspaces or in none, and an
\* insert(q) that succeeds afterwards leaves q in all of them.
C33_ErrorKeepsConsistency ==
    thr[1].pc = "idle"
       => \A q \in StepErrQuads :
             /\ InAllKeyspaces(trees, q) \/ InNoKeyspace(trees, q)
             /\ InAllKeyspaces(insert(trees, q).store, q)

(***************************************************************************)
(* Completed calls on a store that holds interned strings: the quad and    *)
(* graph operations of the storage handle, clear, and insert_str.          *)
(***************************************************************************)

NextFrame ==
    \/ \E key \in StrHashes : StrInsertStr(key, Strings[key])
    \/ \E quad \in StrQuads : Insert(quad)
    \/ \E quad \in StrQuads : Remove(quad)
    \/ \E graph_name \in NamedGraphs : InsertNamedGraph(graph_name)
    \/ \E graph_name \in GraphNames : ClearGraph(graph_name)
    \/ \E graph_name \in GraphNames : RemoveNamedGraph(graph_name)
    \/ Clear

SpecFrame == Init /\ [][NextFrame]_vars

\* The quad and graph operations other than clear.
QuadAndGraphOps ==
    {"insert", "remove", "insert_named_graph", "clear_graph", "remove_named_graph"}

\* C34: quad operations are confined to the keyspaces of the graph class of
\* the quad: insert or remove of a default-graph quad changes only DSPO, DPOS
\* and DOSP and leaves the six named-graph keyspaces and the registry as they
\* were; insert or remove of a named-graph quad leaves the three default-graph
\* keyspaces as they were; and no quad or graph operation other than clear
\* changes the interner or the stored version.
C34_QuadOpsConfined ==
    /\ [](\A q \in StrQuads :
             LET i == insert(trees, q).store
                 r == remove(trees, q).store
             IN  /\ i.id2str = trees.id2str /\ r.id2str = trees.id2str
                 /\ IF is_default_graph(q.graph_name)
                    THEN \A t \in NamedTreeNames \cup {"graphs"} :
                            i[t] = trees[t] /\ r[t] = trees[t]
                    ELSE \A t \in DefaultTreeNames :
                            i[t] = trees[t] /\ r[t] = trees[t])
    /\ [](\A g \in GraphNames :
             /\ insert_named_graph(trees, g).store.id2str = trees.id2str
             /\ clear_graph(trees, g).id2str = trees.id2str
             /\ remove_named_graph(trees, g).store.id2str = trees.id2str)
    /\ [][last'.op \in QuadAndGraphOps
             => /\ default' = default
                /\ trees'.id2str = trees.id2str
                /\ (last'.op \in {"insert", "remove"} /\ is_default_graph(last'.graph_name))
                      => \A t \in NamedTreeNames \cup {"graphs"} : trees'[t] = trees[t]
                /\ (last'.op \in {"insert", "remove"} /\ ~is_default_graph(last'.graph_name))
                      => \A t \in DefaultTreeNames : trees'[t] = trees[t]]_vars

\* C34 witness: with a string interned and a quad stored in each graph class,
\* a default-graph quad was removed: the named-graph quad, the registry entry
\* and the string are still there.
C34_Witness ==
    /\ last.op = "remove" /\ last.ret /\ is_default_graph(last.graph_name)
    /\ DOMAIN trees.id2str # {}
    /\ trees.dspo = {} /\ trees.gspo # {} /\ trees.graphs # {}

RECURSIVE remove_all(_, _)
\* Storage::remove called for each quad of a sequence, in its order.
remove_all(st, quads_in) ==
    IF quads_in = <<>> THEN st
    ELSE remove_all(remove(st, Head(quads_in)).store, Tail(quads_in))

GraphLoopOps == {"clear_graph", "remove_named_graph"}

\* A call of insert, made while no loop is running.
LoopInsert(quad) == thr[1].pc = "idle" /\ Insert(quad)

\* clear_graph or remove_named_graph is called with a named graph: the scan
\* quads_for_graph(g) is made.  `start` holds the quads of g stored now and
\* `next` counts the removes of the loop (history).
GraphLoopBegin(t, op, graph_name) ==
    /\ thr[t].pc = "idle"
    /\ thr' = [thr EXCEPT ![t] =
                  [pc |-> "scanning", op |-> op,
                   quad |-> EncodedQuad(None, None, None, graph_name), next |-> 0,
                   start |-> {q \in Quads : q.graph_name = graph_name /\ contains(trees, q)}]]
    /\ UNCHANGED <<trees, inserted, last, tx, default>>

\* One turn of the loop: next() on the scan, which reads the tree as it is
\* now, and remove of the quad it yields; when it yields none the loop ends,
\* remove_named_graph removes the registry key, and the call returns.
GraphLoopNext(t) ==
    /\ thr[t].pc = "scanning"
    /\ UNCHANGED <<tx, default>>
    /\ \E graph_name \in {thr[t].quad.graph_name} :
       \E chain \in {IF thr[t].quad.subject = None
                      THEN quads_for_graph(graph_name)
                      ELSE [quads_for_graph(graph_name) EXCEPT
                               !.first.iter.last = SomeKey(write_gspo_quad(thr[t].quad))]} :
       \E r \in {ChainedDecodingQuadIterator_next(trees, chain)} :
          IF r.some
          THEN /\ trees' = remove(trees, r.item).store
               /\ thr' = [thr EXCEPT ![t].quad = r.item, ![t].next = @ + 1]
               /\ UNCHANGED <<inserted, last>>
          ELSE /\ trees' = IF thr[t].op = "remove_named_graph"
                            THEN [trees EXCEPT !.graphs = @ \ {encode_term(graph_name)}]
                            ELSE trees
               /\ thr' = [thr EXCEPT ![t].pc = "idle"]
               /\ inserted' = {q \in inserted : q.graph_name # graph_name}
               /\ last' = Call(thr[t].op, graph_name,
                               IF thr[t].op = "remove_named_graph"
                               THEN encode_term(graph_name) \in trees.graphs ELSE TRUE)

\* One thread inserts quads and calls clear_graph and remove_named_graph on
\* the named graphs.
NextGraphLoop ==
    \/ \E quad \in StrQuads : LoopInsert(quad)
    \/ \E op \in GraphLoopOps : \E graph_name \in NamedGraphs : GraphLoopBegin(1, op, graph_name)
    \/ GraphLoopNext(1)

\* The thread that is in a call goes on with it.
SpecGraphLoop == Init /\ [][NextGraphLoop]_vars /\ WF_vars(GraphLoopNext(1))

\* C36: with no other writer, clear_graph(g) and remove_named_graph(g) on a
\* named graph g terminate: although the loop removes keys from GSPO while it
\* scans GSPO, it makes one remove for each quad of g stored at the start (in
\* every turn the removes made and the quads of the start still stored add up
\* to the quads of the start), then stops, and every one of those quads is
\* then in none of the six named-graph keyspaces.
C36_GraphLoopTerminates ==
    /\ [](thr[1].pc = "scanning"
             => /\ thr[1].next <= Cardinality(thr[1].start)
                /\ Cardinality({q \in thr[1].start : contains(trees, q)})
                      = Cardinality(thr[1].start) - thr[1].next
                /\ \A q \in thr[1].start : InAllKeyspaces(trees, q) \/ InNoKeyspace(trees, q))
    /\ [][(thr[1].pc = "scanning" /\ thr'[1].pc = "idle")
             => /\ thr'[1].next = Cardinality(thr[1].start)
                /\ \A q \in thr[1].start : InNoKeyspace(trees', q)
                /\ trees'.gspo = trees.gspo]_vars
    /\ (thr[1].pc = "scanning") ~> (thr[1].pc = "idle")

\* C36 witness: clear_graph has returned after it removed the two quads the
\* named graph held at the start, in two turns of its loop; the graph is still
\* registered.
C36_Witness ==
    /\ thr[1].pc = "idle" /\ thr[1].op = "clear_graph"
    /\ thr[1].next = 2 /\ Cardinality(thr[1].start) = 2
    /\ \A q \in thr[1].start : InNoKeyspace(trees, q)
    /\ last.op = "clear_graph" /\ contains_named_graph(trees, last.graph_name)

====
